---- MODULE Spec2Model ----
(***************************************************************************)
(* Title-matching pipeline of scripts/bulk_import_hellofresh/matcher.py:   *)
(* keyword normaliser, inverted index with its module-level cache, F1      *)
(* scorer, prefilter, and the batch loop of match_all_titles with the      *)
(* text-completion collaborator as the environment.                        *)
(*                                                                         *)
(* Representation.  A title or catalog name is the sequence of its         *)
(* lower-case alphanumeric words (what title.lower() and the split on      *)
(* non-alphanumerics leave).  Python None is the string "null".  Python    *)
(* positions are 0-based and kept 0-based; TLA+ sequences are 1-based, so  *)
(* entry idx of a list l is l[idx + 1].  A catalog is a record holding its *)
(* object identity, its leading entries, and a count of further entries    *)
(* whose names are pure branding noise (empty keyword set), which lets a   *)
(* catalog be longer than the 500-entry switch of match_all_titles.        *)
(* Scores are exact fractions <<numerator, denominator>>; with at most     *)
(* three query keywords and four candidate keywords the IEEE doubles the   *)
(* program computes are ordered exactly as these fractions are.  The       *)
(* comparison with the threshold 0.1 is carried out in IEEE doubles where  *)
(* the exact score is 1/10.                                                *)
(***************************************************************************)
EXTENDS Integers, Sequences, FiniteSets, TLC

VARIABLES
    scanned_titles,     \* argument: list of scanned titles
    sitemap_recipes,    \* argument: the catalog object
    batch_size,         \* argument
    use_prefilter,      \* argument
    max_candidates,     \* argument of a direct prefilter_candidates call
    pc,                 \* position inside the running function
    i,                  \* loop variable i of match_all_titles
    title_candidates,   \* list of (i, title, candidates)
    all_matches,        \* accumulated results
    batch_start,        \* loop variable of the chunk loop
    calls,              \* history: every chunk sent, with reply and outcome
    progress,           \* history: progress_callback invocations
    _keyword_index,     \* module global: cached inverted index
    _indexed_recipes,   \* module global: identity of the indexed catalog
    candidates,         \* value returned by a direct prefilter_candidates call
    result,             \* value returned by match_all_titles
    raised,             \* text of the exception that left match_all_titles
    deviations,         \* number of collaborator replies so far other than the expected one
    scanned_keywords,   \* argument of score_candidate
    candidate_name,     \* argument of score_candidate
    score,              \* exact value of the expression score_candidate returns
    score_float,        \* the IEEE double score_candidate returns
    index_calls,        \* history: direct calls of prefilter_candidates and build_keyword_index
    country,            \* command-line option --country of cli.match
    responses,          \* environment: what each regional sitemap URL answers
    cache_files,        \* .cache/sitemap_<country>.json, per country
    fetch_pos,          \* fetch_all_sitemaps: number of countries processed
    all_recipes,        \* fetch_all_sitemaps: recipes gathered so far
    recipes,            \* cli.match: the catalog loaded
    fetch_errors,       \* history: countries whose error fetch_all_sitemaps caught
    cli_raised,         \* text of the exception that left cli.match before matching
    summarized,         \* summarize_matches: the argument matches
    summary,            \* summarize_matches: the dict returned
    backend,            \* the Mealie server's state
    backend_before,     \* history: the server's state when the last call began
    http_log,           \* history: the HTTP exchanges of the last call
    invoked,            \* the client method or tool called last
    call_result,        \* what that call handed back
    match_list,         \* bulk_import: the argument matches
    min_confidence,     \* bulk_import: argument
    dry_run,            \* bulk_import: argument
    to_import,          \* bulk_import: the matches selected for import
    results,            \* bulk_import: the dict being built
    client,             \* bulk_import: the MealieClient ("none" before it is created)
    import_i,           \* bulk_import: loop variable i
    import_log,         \* history: the HTTP exchanges of the run and its delays
    bulk_returned,      \* what bulk_import returned
    bulk_raised,        \* text of the exception that left bulk_import
    sleeps              \* history: number of asyncio.sleep calls awaited so far

matcherVars == <<scanned_titles, sitemap_recipes, batch_size, use_prefilter,
                 max_candidates, i, title_candidates, all_matches,
                 batch_start, calls, progress, _keyword_index,
                 _indexed_recipes, candidates, result, raised, deviations>>

scorerVars == <<scanned_keywords, candidate_name, score, score_float>>

cliVars == <<country, responses, cache_files, fetch_pos, all_recipes, recipes,
             fetch_errors, cli_raised>>

summaryVars == <<summarized, summary>>

mealieVars == <<backend, backend_before, http_log, invoked, call_result>>

importVars == <<match_list, min_confidence, dry_run, to_import, results,
                client, import_i, import_log, bulk_returned, bulk_raised,
                sleeps>>

vars == <<pc, matcherVars, scorerVars, index_calls, cliVars, summaryVars,
          mealieVars, importVars>>

\* the variables other than pc that a step of one component leaves alone
exceptIndexCalls == <<scorerVars, cliVars, summaryVars, mealieVars, importVars>>
exceptMatcher == <<exceptIndexCalls, index_calls>>
exceptScorer ==
    <<matcherVars, index_calls, cliVars, summaryVars, mealieVars, importVars>>
exceptCli == <<matcherVars, scorerVars, index_calls, mealieVars, importVars>>
exceptSummary ==
    <<matcherVars, scorerVars, index_calls, cliVars, mealieVars, importVars>>
exceptMealie ==
    <<matcherVars, scorerVars, index_calls, cliVars, summaryVars, importVars>>
exceptImport ==
    <<matcherVars, scorerVars, index_calls, cliVars, summaryVars, mealieVars>>

NULL == "null"

\* no score_candidate call is under way
ScorerIdle ==
    /\ scanned_keywords = {}
    /\ candidate_name = <<>>
    /\ score = <<0, 1>>
    /\ score_float = [m |-> <<>>, e |-> 0]

\* no matcher call is under way
MatcherIdle ==
    /\ scanned_titles = <<>>
    /\ sitemap_recipes = [id |-> 1, entries |-> <<>>, padding |-> 0]
    /\ batch_size = 1
    /\ use_prefilter = TRUE
    /\ max_candidates = 15
    /\ i = 0
    /\ title_candidates = <<>>
    /\ all_matches = <<>>
    /\ batch_start = 0
    /\ calls = <<>>
    /\ progress = <<>>
    /\ _keyword_index = [present |-> FALSE, map |-> [kw \in {} |-> {}]]
    /\ _indexed_recipes = 0
    /\ candidates = <<>>
    /\ result = <<>>
    /\ raised = NULL
    /\ deviations = 0

\* no command is under way
CliIdle ==
    /\ country = "all"
    /\ responses = <<>>
    /\ cache_files = <<>>
    /\ fetch_pos = 0
    /\ all_recipes = <<>>
    /\ recipes = <<>>
    /\ fetch_errors = <<>>
    /\ cli_raised = NULL

\* summarize_matches has not been called
SummaryIdle == summarized = <<>> /\ summary = NULL

\* no client method and no tool has been called
MealieIdle ==
    /\ backend = [items |-> <<>>, plans |-> <<>>]
    /\ backend_before = backend
    /\ http_log = <<>>
    /\ invoked = [api |-> "none", name |-> "none", args |-> <<>>]
    /\ call_result = [kind |-> "None"]

\* bulk_import has not been called
ImportIdle ==
    /\ match_list = <<>>
    /\ min_confidence = "medium"
    /\ dry_run = FALSE
    /\ to_import = <<>>
    /\ results = NULL
    /\ client = "none"
    /\ import_i = 0
    /\ import_log = <<>>
    /\ bulk_returned = NULL
    /\ bulk_raised = NULL
    /\ sleeps = 0

IdleExceptIndexCalls ==
    ScorerIdle /\ CliIdle /\ SummaryIdle /\ MealieIdle /\ ImportIdle
IdleExceptMatcher == IdleExceptIndexCalls /\ index_calls = <<>>
IdleExceptScorer ==
    /\ MatcherIdle /\ index_calls = <<>> /\ CliIdle /\ SummaryIdle
    /\ MealieIdle /\ ImportIdle
IdleExceptSummary ==
    /\ MatcherIdle /\ ScorerIdle /\ index_calls = <<>> /\ CliIdle
    /\ MealieIdle /\ ImportIdle
IdleExceptMealie ==
    /\ MatcherIdle /\ ScorerIdle /\ index_calls = <<>> /\ CliIdle
    /\ SummaryIdle /\ ImportIdle
IdleExceptImport ==
    /\ MatcherIdle /\ ScorerIdle /\ index_calls = <<>> /\ CliIdle
    /\ SummaryIdle /\ MealieIdle

(***************************************************************************)
(* Bounds of the model.                                                    *)
(***************************************************************************)
MaxTitles == 3        \* longest list of scanned titles
MaxBatch == 2         \* largest batch_size argument
MaxDeviations == 1    \* collaborator replies per run other than the expected one
MaxCatalog == 3       \* longest catalog of a direct prefilter call
MaxK == 3             \* largest max_candidates of a direct prefilter call
LargePadding == 500   \* noise-named entries appended to make a large catalog
MaxQueryKeywords == 10  \* most keywords of a title in a threshold call
MaxNameKeywords == 10   \* most keywords of a catalog name in a threshold call
MaxShared == 2          \* most keywords title and name share in a threshold call
MaxScoreQuery == 3      \* most keywords in the query set of a direct scorer call
MaxCalls == 3           \* most direct calls a caller makes one after the other
MaxMatches == 2         \* longest result list given to summarize_matches
MaxItems == 2           \* most items given to add_to_shopping_list
MaxImport == 2          \* longest match list given to bulk_import

(***************************************************************************)
(* Program constants.                                                      *)
(***************************************************************************)
MAX_CANDIDATES_PER_TITLE == 15
PrefilterMinCatalog == 500

(***************************************************************************)
(* Sequence helpers.                                                       *)
(***************************************************************************)
Range(s) == {s[n] : n \in 1..Len(s)}

Min(a, b) == IF a < b THEN a ELSE b

\* Python slice l[from:to] with 0-based bounds, to clipped to len(l)
Slice(l, from, to) == SubSeq(l, from + 1, Min(to, Len(l)))

RemoveAt(s, p) == SubSeq(s, 1, p - 1) \o SubSeq(s, p + 1, Len(s))

Reverse(s) == [n \in 1..Len(s) |-> s[Len(s) + 1 - n]]

SeqsUpTo(S, n) == UNION {[1..m -> S] : m \in 0..n}

\* the sequences of at most n elements of S, no element twice
DistinctSeqsUpTo(S, n) ==
    {s \in SeqsUpTo(S, n) : Cardinality(Range(s)) = Len(s)}

\* all enumerations of a finite set without repetition
Orders(S) == {o \in [1..Cardinality(S) -> S] : Range(o) = S}

(***************************************************************************)
(* Keyword normaliser.                                                     *)
(***************************************************************************)
noise_words == <<"hello", "fresh">>
noise_pairs == <<<<"grab", "your">>, <<"meal", "kit">>, <<"meat", "kit">>>>
stop_words == {"and", "with", "the", "for", "your"}

\* re.sub(r"\bw\b", "", title): the word disappears, the blanks around it stay
RemoveWord(ws, w) == [n \in 1..Len(ws) |-> IF ws[n] = w THEN "" ELSE ws[n]]

\* re.sub(r"\ba b\b", "", title): only a directly followed by b matches
RemovePair(ws, p) ==
    [n \in 1..Len(ws) |->
        IF \/ (ws[n] = p[1] /\ n < Len(ws) /\ ws[n + 1] = p[2])
           \/ (ws[n] = p[2] /\ n > 1 /\ ws[n - 1] = p[1])
        THEN "" ELSE ws[n]]

\* str.title() and str.lower() on the words of the catalog names; every
\* other word of the model is in lower case already
Title(w) ==
    CASE w = "chicken" -> "Chicken" [] w = "teriyaki" -> "Teriyaki"
      [] w = "bowl" -> "Bowl" [] w = "with" -> "With" [] w = "rice" -> "Rice"
      [] w = "beef" -> "Beef" [] w = "tacos" -> "Tacos"
      [] w = "fresh" -> "Fresh" [] w = "salsa" -> "Salsa"
      [] w = "kale" -> "Kale" [] w = "salad" -> "Salad"
      [] OTHER -> w

LowerCase ==
    [w \in {"Chicken", "Teriyaki", "Bowl", "With", "Rice", "Beef", "Tacos",
            "Fresh", "Salsa", "Kale", "Salad"} |->
        CHOOSE v \in {"chicken", "teriyaki", "bowl", "with", "rice", "beef",
                      "tacos", "fresh", "salsa", "kale", "salad"} : Title(v) = w]

Capitalised == DOMAIN LowerCase

Lower(w) == IF w \in Capitalised THEN LowerCase[w] ELSE w

\* title.lower(), then the noise patterns one after the other, in list order
normalize_title(mixed) ==
    LET title == [n \in 1..Len(mixed) |-> Lower(mixed[n])]
        a == RemoveWord(RemoveWord(title, noise_words[1]), noise_words[2])
        b == RemovePair(RemovePair(RemovePair(a, noise_pairs[1]),
                                   noise_pairs[2]), noise_pairs[3])
        c == RemoveWord(b, "kit")
    IN  SelectSeq(c, LAMBDA w : w # "")

extract_keywords(title) ==
    {w \in Range(normalize_title(title)) : Len(w) >= 3 /\ w \notin stop_words}

(***************************************************************************)
(* Candidate scorer: fractions <<n, d>> with d > 0.                        *)
(***************************************************************************)
Zero == <<0, 1>>
FracMul(a, b) == <<a[1] * b[1], a[2] * b[2]>>
FracAdd(a, b) == <<a[1] * b[2] + b[1] * a[2], a[2] * b[2]>>
FracDiv(a, b) == <<a[1] * b[2], a[2] * b[1]>>
FracGT(a, b) == a[1] * b[2] > b[1] * a[2]
FracEQ(a, b) == a[1] * b[2] = b[1] * a[2]

\* arithmetic instead of harmonic mean of precision and recall
score_candidate_arithmetic(scanned_kws, name) ==
    LET candidate_keywords == extract_keywords(name)
        matches == scanned_kws \cap candidate_keywords
        precision == <<Cardinality(matches), Cardinality(scanned_kws)>>
        recall == <<Cardinality(matches), Cardinality(candidate_keywords)>>
    IN  IF scanned_kws = {} \/ candidate_keywords = {} THEN Zero
        ELSE FracDiv(FracAdd(precision, recall), <<2, 1>>)

score_candidate(scanned_kws, name) ==
    LET candidate_keywords == extract_keywords(name)
        matches == scanned_kws \cap candidate_keywords
        precision == <<Cardinality(matches), Cardinality(scanned_kws)>>
        recall == <<Cardinality(matches), Cardinality(candidate_keywords)>>
    IN  IF scanned_kws = {} \/ candidate_keywords = {} THEN Zero
        ELSE IF FracAdd(precision, recall)[1] = 0 THEN Zero
        ELSE FracDiv(FracMul(<<2, 1>>, FracMul(precision, recall)),
                     FracAdd(precision, recall))

\* the exact score is above 1/10
AboveThreshold(value) == FracGT(value, <<1, 10>>)

(***************************************************************************)
(* IEEE-754 binary64 arithmetic, as Python floats compute the score.       *)
(* A natural number of any size is the little-endian sequence of its       *)
(* base-2^30 digits, without leading zero digits (0 is the empty           *)
(* sequence).  A positive double is [m, e] standing for m * 2^e with       *)
(* 2^52 <= m < 2^53; 0.0 is [m |-> <<>>, e |-> 0].  Every operation rounds *)
(* the exact result to nearest, ties to even.                              *)
(***************************************************************************)
LimbBits == 30
Base == 1073741824

Pow2(n) == 2 ^ n

Limb(a, k) == IF k <= Len(a) THEN a[k] ELSE 0

RECURSIVE BigTrim(_)
BigTrim(a) ==
    IF a = <<>> THEN <<>>
    ELSE IF a[Len(a)] = 0 THEN BigTrim(SubSeq(a, 1, Len(a) - 1)) ELSE a

RECURSIVE BigOfInt(_)
BigOfInt(n) == IF n = 0 THEN <<>> ELSE <<n % Base>> \o BigOfInt(n \div Base)

\* the operands' digits are below 2^30, so a digit sum stays below 2^31
RECURSIVE BigAddFrom(_, _, _, _)
BigAddFrom(a, b, k, carry) ==
    IF k > Len(a) /\ k > Len(b)
    THEN IF carry = 0 THEN <<>> ELSE <<carry>>
    ELSE LET hi == (Limb(a, k) \div 2) + (Limb(b, k) \div 2)
             lo == (Limb(a, k) % 2) + (Limb(b, k) % 2) + carry
             s2 == hi + (lo \div 2)
         IN  <<(s2 % (Base \div 2)) * 2 + (lo % 2)>>
                \o BigAddFrom(a, b, k + 1, s2 \div (Base \div 2))

BigAdd(a, b) == BigAddFrom(a, b, 1, 0)

\* a - b for a >= b
RECURSIVE BigSubFrom(_, _, _, _)
BigSubFrom(a, b, k, borrow) ==
    IF k > Len(a) THEN <<>>
    ELSE LET d == Limb(a, k) - Limb(b, k) - borrow
         IN  <<IF d < 0 THEN d + Base ELSE d>>
                \o BigSubFrom(a, b, k + 1, IF d < 0 THEN 1 ELSE 0)

BigSub(a, b) == BigTrim(BigSubFrom(a, b, 1, 0))

RECURSIVE BigGEFrom(_, _, _)
BigGEFrom(a, b, k) ==
    IF k = 0 THEN TRUE
    ELSE IF a[k] # b[k] THEN a[k] > b[k] ELSE BigGEFrom(a, b, k - 1)

\* a >= b
BigGE(a, b) ==
    IF Len(a) # Len(b) THEN Len(a) > Len(b) ELSE BigGEFrom(a, b, Len(a))

RECURSIVE IntBitLen(_)
IntBitLen(n) == IF n = 0 THEN 0 ELSE 1 + IntBitLen(n \div 2)

BitLen(a) ==
    IF a = <<>> THEN 0 ELSE LimbBits * (Len(a) - 1) + IntBitLen(a[Len(a)])

\* bit number n (0 = least significant) of a
Bit(a, n) == (Limb(a, (n \div LimbBits) + 1) \div Pow2(n % LimbBits)) % 2

\* a * 2^n
BigShl(a, n) ==
    LET s == n % LimbBits
        hi == Pow2(LimbBits - s)
        shifted == [k \in 1..(Len(a) + 1) |->
                       (Limb(a, k) % hi) * Pow2(s)
                          + (IF k = 1 THEN 0 ELSE a[k - 1] \div hi)]
    IN  BigTrim([k \in 1..(n \div LimbBits) |-> 0] \o shifted)

\* a \div 2^n
BigShr(a, n) ==
    LET w == n \div LimbBits
        s == n % LimbBits
    IN  BigTrim([k \in 1..(Len(a) - w) |->
                    (a[k + w] \div Pow2(s))
                       + (Limb(a, k + w + 1) % Pow2(s)) * Pow2(LimbBits - s)])

BigHalf(a) == BigShr(a, 1)

RECURSIVE BigMulFrom(_, _, _, _)
BigMulFrom(a, b, n, acc) ==
    IF n < 0 \/ Len(acc) < 0 THEN acc
    ELSE BigMulFrom(a, b, n - 1,
                    IF Bit(b, n) = 1 THEN BigAdd(BigAdd(acc, acc), a)
                    ELSE BigAdd(acc, acc))

BigMul(a, b) == BigMulFrom(a, b, BitLen(b) - 1, <<>>)

\* <<quotient, remainder>> of n by d, bit n of the dividend downwards
RECURSIVE BigDivFrom(_, _, _, _, _)
BigDivFrom(n, d, k, q, r) ==
    IF k < 0 \/ Len(q) < 0 THEN <<q, r>>
    ELSE LET r2 == IF Bit(n, k) = 1 THEN BigAdd(BigAdd(r, r), <<1>>)
                   ELSE BigAdd(r, r)
         IN  IF BigGE(r2, d)
             THEN BigDivFrom(n, d, k - 1, BigAdd(BigAdd(q, q), <<1>>), BigSub(r2, d))
             ELSE BigDivFrom(n, d, k - 1, BigAdd(q, q), r2)

\* the leading BitLen(d) - 1 bits of n are less than d: they start the remainder
BigDivMod(n, d) ==
    LET k == BitLen(n) - BitLen(d)
    IN  IF k < 0 THEN <<<<>>, n>>
        ELSE BigDivFrom(n, d, k, <<>>, BigShr(n, k + 1))

DoubleZero == [m |-> <<>>, e |-> 0]

\* a mantissa of 54 bits after rounding up is halved
Normalised(m, e) ==
    IF BitLen(m) = 54 THEN [m |-> BigHalf(m), e |-> e + 1]
    ELSE [m |-> m, e |-> e]

\* round to nearest, ties to even: low is what is dropped below kept, half
\* is half a unit of kept's last place, rest the division's remainder
RoundUp(kept, low, half, rest) ==
    \/ low > half
    \/ low = half /\ rest # <<>>
    \/ low = half /\ rest = <<>> /\ kept[1] % 2 = 1

Rounded(kept, low, half, rest, e) ==
    Normalised(IF RoundUp(kept, low, half, rest) THEN BigAdd(kept, <<1>>)
               ELSE kept, e)

\* the quotient has 54 or 55 bits: its last drop = 1 or 2 bits are rounded away
RoundQuotient(q, rest, drop, e) ==
    Rounded(BigShr(q, drop), q[1] % Pow2(drop), Pow2(drop - 1), rest, e + drop)

RoundDivision(qr, e) == RoundQuotient(qr[1], qr[2], BitLen(qr[1]) - 53, e)

\* (n * 2^a) / d for a >= 0 and n / (d * 2^-a) for a < 0
Scaled(n, d, a, e) ==
    RoundDivision(BigDivMod(IF a >= 0 THEN BigShl(n, a) ELSE n,
                            IF a >= 0 THEN d ELSE BigShl(d, 0 - a)), e - a)

\* the double nearest to (n / d) * 2^e, for natural numbers n, d > 0
RoundToDouble(n, d, e) == Scaled(n, d, (BitLen(d) + 54) - BitLen(n), e)

\* int / int
DoubleOfRatio(n, d) ==
    IF n = 0 THEN DoubleZero ELSE RoundToDouble(BigOfInt(n), BigOfInt(d), 0)

DoubleMul(x, y) ==
    IF x.m = <<>> \/ y.m = <<>> THEN DoubleZero
    ELSE RoundToDouble(BigMul(x.m, y.m), <<1>>, x.e + y.e)

DoubleAdd(x, y) ==
    IF x.m = <<>> THEN y
    ELSE IF y.m = <<>> THEN x
    ELSE LET e == Min(x.e, y.e)
         IN  RoundToDouble(BigAdd(BigShl(x.m, x.e - e), BigShl(y.m, y.e - e)),
                           <<1>>, e)

\* x / y for y # 0
DoubleDiv(x, y) ==
    IF x.m = <<>> THEN DoubleZero ELSE RoundToDouble(x.m, y.m, x.e - y.e)

\* x > y for doubles >= 0
DoubleGT(x, y) ==
    IF x.m = <<>> THEN FALSE
    ELSE IF y.m = <<>> THEN TRUE
    ELSE IF x.e # y.e THEN x.e > y.e
    ELSE x.m # y.m /\ BigGE(x.m, y.m)

HarmonicMean(precision, recall, sum) ==
    IF sum.m = <<>> THEN DoubleZero
    ELSE DoubleDiv(DoubleMul(DoubleOfRatio(2, 1),
                             DoubleMul(precision, recall)), sum)

F1Of(precision, recall) ==
    HarmonicMean(precision, recall, DoubleAdd(precision, recall))

\* the float score_candidate returns for len(matches) = m,
\* len(scanned_keywords) = q and len(candidate_keywords) = c
F1Double(m, q, c) ==
    IF q = 0 \/ c = 0 THEN DoubleZero
    ELSE F1Of(DoubleOfRatio(m, q), DoubleOfRatio(m, c))

\* the float score_candidate returns
score_candidate_float(scanned_kws, name) ==
    F1Double(Cardinality(scanned_kws \cap extract_keywords(name)),
             Cardinality(scanned_kws), Cardinality(extract_keywords(name)))

\* the literal 0.1
MinimumThreshold == DoubleOfRatio(1, 10)

\* "if score > 0.1" on the float score_candidate returns.  The float is
\* within a few units of 2^-53 of the exact score, and an exact score
\* other than 1/10 of names with at most a few hundred keywords is at
\* least 1/10000 away from 1/10: only at an exact score of 1/10 does the
\* rounding decide, and there the float arithmetic is carried out.
PassesThreshold(scanned_kws, name) ==
    IF FracEQ(score_candidate(scanned_kws, name), <<1, 10>>)
    THEN DoubleGT(score_candidate_float(scanned_kws, name), MinimumThreshold)
    ELSE AboveThreshold(score_candidate(scanned_kws, name))

(***************************************************************************)
(* Catalog objects and the inverted index.                                 *)
(***************************************************************************)
CatalogLen(cat) == Len(cat.entries) + cat.padding

\* an index that records a keyword's position only when the keyword is new
IndexOf_first_position(cat) ==
    LET kws == UNION {extract_keywords(cat.entries[n].name) :
                        n \in 1..Len(cat.entries)}
    IN  [kw \in kws |->
            {(CHOOSE m \in 1..Len(cat.entries) :
                 /\ kw \in extract_keywords(cat.entries[m].name)
                 /\ \A o \in 1..(m - 1) :
                       kw \notin extract_keywords(cat.entries[o].name)) - 1}]

\* the index as build_keyword_index computes it: keyword -> set of positions
IndexOf(cat) ==
    LET kws == UNION {extract_keywords(cat.entries[n].name) :
                        n \in 1..Len(cat.entries)}
    IN  [kw \in kws |->
            {n - 1 : n \in {m \in 1..Len(cat.entries) :
                               kw \in extract_keywords(cat.entries[m].name)}}]

NoIndex == [present |-> FALSE, map |-> [kw \in {} |-> {}]]

\* a cache check that does not look at the identity of the catalog
CacheHit_any_object(cat) == _keyword_index.present

CacheHit(cat) == _indexed_recipes = cat.id /\ _keyword_index.present

\* returns whatever index is cached, fresh or not
build_keyword_index_stale(cat) ==
    IF _keyword_index.present THEN _keyword_index.map ELSE IndexOf(cat)

\* value returned by build_keyword_index(cat)
build_keyword_index(cat) ==
    IF CacheHit(cat) THEN _keyword_index.map ELSE IndexOf(cat)

\* globals after build_keyword_index(cat)
CacheAfterBuild(cat) ==
    IF CacheHit(cat) THEN <<_keyword_index, _indexed_recipes>>
    ELSE <<[present |-> TRUE, map |-> IndexOf(cat)], cat.id>>

(***************************************************************************)
(* Prefilter.                                                              *)
(***************************************************************************)
\* list.sort(key=score, reverse=True): stable, descending
RECURSIVE InsertByScore(_, _)
InsertByScore(sorted, x) ==
    IF sorted = <<>> THEN <<x>>
    ELSE IF FracGT(x.score, sorted[Len(sorted)].score)
         THEN Append(InsertByScore(SubSeq(sorted, 1, Len(sorted) - 1), x),
                     sorted[Len(sorted)])
         ELSE Append(sorted, x)

SortByScore_unsorted(scored) == scored

RECURSIVE SortByScore(_)
SortByScore(scored) ==
    IF scored = <<>> THEN <<>>
    ELSE InsertByScore(SortByScore(SubSeq(scored, 1, Len(scored) - 1)),
                       scored[Len(scored)])

\* positions gathered from the index for the query keywords
CandidateIndices(scanned_kws, keyword_index) ==
    UNION {keyword_index[kw] : kw \in scanned_kws \cap DOMAIN keyword_index}

\* position idx of the catalog; the entries past the leading ones bear a
\* name of branding noise
EntryAt(cat, idx) ==
    IF idx < Len(cat.entries) THEN cat.entries[idx + 1]
    ELSE [name |-> <<"hello", "fresh">>, url |-> "noise"]

\* lines 153-180 with the index build_keyword_index returned; order is the
\* order in which the set candidate_indices is iterated
prefilter_with(scanned_title, cat, keyword_index, maxc, order) ==
    LET scanned_kws == extract_keywords(scanned_title)
        all == [n \in 1..Len(order) |->
                  [score |-> score_candidate(scanned_kws,
                                             EntryAt(cat, order[n]).name),
                   recipe |-> EntryAt(cat, order[n])]]
        scored == SelectSeq(all, LAMBDA x : PassesThreshold(scanned_kws,
                                                            x.recipe.name))
        sorted == SortByScore(scored)
    IN  IF scanned_kws = {} THEN <<>>
        ELSE [n \in 1..Min(maxc, Len(sorted)) |-> sorted[n].recipe]

prefilter_candidates(scanned_title, cat, maxc, order) ==
    prefilter_with(scanned_title, cat, build_keyword_index(cat), maxc, order)

\* the iteration orders a prefilter call can see
PrefilterOrders(scanned_title, cat) ==
    IF extract_keywords(scanned_title) = {} THEN {<<>>}
    ELSE Orders(CandidateIndices(extract_keywords(scanned_title),
                                 build_keyword_index(cat)))

\* candidate_indices aliasing the index entry of one query keyword: the
\* update calls then write the other keywords' positions into the index
CacheAfterPrefilter_aliasing(scanned_title, cat) ==
    LET built == CacheAfterBuild(cat)
        kws == extract_keywords(scanned_title) \cap DOMAIN built[1].map
        first == CHOOSE kw \in kws : TRUE
    IN  IF extract_keywords(scanned_title) = {}
        THEN <<_keyword_index, _indexed_recipes>>
        ELSE IF kws = {} THEN built
        ELSE <<[present |-> TRUE,
                map |-> [kw \in DOMAIN built[1].map |->
                           IF kw = first
                           THEN CandidateIndices(kws, built[1].map)
                           ELSE built[1].map[kw]]],
               built[2]>>

\* globals after prefilter_candidates(scanned_title, cat)
CacheAfterPrefilter(scanned_title, cat) ==
    IF extract_keywords(scanned_title) = {}
    THEN <<_keyword_index, _indexed_recipes>>
    ELSE CacheAfterBuild(cat)

(***************************************************************************)
(* Inputs of the model: titles, catalog entries, catalogs.                 *)
(***************************************************************************)
TitlePool ==
    { <<"chicken", "teriyaki", "bowl">>,
      <<"xyz", "unmatchable", "noise">>,
      <<"beef", "tacos", "with", "salsa">>,
      <<"hello", "fresh", "meal", "kit">> }

Entry(name, url) == [name |-> name, url |-> url]

ChickenBowl == Entry(<<"chicken", "teriyaki", "bowl", "with", "rice">>, "u1")
BeefTacos == Entry(<<"beef", "tacos", "with", "fresh", "salsa">>, "u2")
KaleSalad == Entry(<<"kale", "salad">>, "u3")
ChickenTacos == Entry(<<"chicken", "tacos">>, "u4")

BeefBowl == Entry(<<"beef", "bowl">>, "u5")

EntryPool == {ChickenBowl, BeefTacos, KaleSalad, ChickenTacos, BeefBowl}

Catalog(entries, padding) == [id |-> 1, entries |-> entries, padding |-> padding]

\* the three-entry catalog of the failure-isolation scenario, and a catalog
\* in which two titles share a candidate and one URL is listed twice
ScenarioEntries == <<ChickenBowl, BeefTacos, KaleSalad>>
RichEntries == <<ChickenBowl, BeefTacos, ChickenTacos, ChickenBowl>>

\* the calls of match_all_titles explored: <<catalog, use_prefilter>>.  The
\* first two take the prefilter path, the third has a small catalog, the
\* fourth switches the prefilter off
RunPool ==
    { <<Catalog(ScenarioEntries, LargePadding), TRUE>>,
      <<Catalog(RichEntries, LargePadding), TRUE>>,
      <<Catalog(ScenarioEntries, 0), TRUE>>,
      <<Catalog(RichEntries, LargePadding), FALSE>> }

(***************************************************************************)
(* Results and collaborator replies.                                       *)
(* A result is the dict the program builds or receives.  error = NULL      *)
(* stands for a dict without the key; an absent name or title is <<>>.     *)
(* isdict = FALSE is a reply element that is not a JSON object.  named and *)
(* chunk are history fields: the index the collaborator wrote into the     *)
(* object and the number of the call it answered (0 for local results).    *)
(***************************************************************************)
LocalResult(idx, title, err) ==
    [isdict |-> TRUE, index |-> idx + 1, scanned |-> title,
     matched_url |-> NULL, matched_name |-> <<>>, confidence |-> NULL,
     error |-> err, named |-> 0, chunk |-> 0]

Junk(c) ==
    [isdict |-> FALSE, index |-> 0, scanned |-> <<>>,
     matched_url |-> NULL, matched_name |-> <<>>, confidence |-> NULL,
     error |-> NULL, named |-> 0, chunk |-> c]

\* the object the collaborator returns for the title numbered j of a chunk:
\* the first listed candidate that shares a keyword with the title ("high"
\* when it has all the title's keywords, "medium" otherwise), or no match
ReplyObject(call, c, j, matched) ==
    LET title == IF j \in 1..Len(call.titles) THEN call.titles[j] ELSE <<>>
        shares == {n \in 1..Len(call.candidates) :
                     extract_keywords(title)
                        \cap extract_keywords(call.candidates[n].name) # {}}
        n == CHOOSE m \in shares : \A q \in shares : m <= q
        hit == matched /\ shares # {}
    IN  [isdict |-> TRUE, index |-> j, scanned |-> title,
         matched_url |-> IF hit THEN call.candidates[n].url ELSE NULL,
         matched_name |-> IF hit THEN call.candidates[n].name ELSE <<>>,
         confidence |->
             IF ~hit THEN NULL
             ELSE IF extract_keywords(title)
                        \subseteq extract_keywords(call.candidates[n].name)
                  THEN "high" ELSE "medium",
         error |-> NULL, named |-> j, chunk |-> c]

\* the reply that answers every numbered title once, in order, with its match
Expected(call, c) ==
    [j \in 1..Len(call.titles) |-> ReplyObject(call, c, j, TRUE)]

\* replies in the requested format that report no match for some title
Declined(call, c) ==
    {[j \in 1..Len(call.titles) |-> ReplyObject(call, c, j, pick[j])] :
        pick \in [1..Len(call.titles) -> BOOLEAN]} \ {Expected(call, c)}

\* replies that parse as a JSON array but break the requested format
OffProtocol(call, c) ==
    LET k == Len(call.titles)
        Reordered(w) == IF k >= 2 THEN {Reverse(w)} ELSE {}
        Omitted(w) == {RemoveAt(w, p) : p \in 1..k}
        Surplus(w) == {Append(w, ReplyObject(call, c, x, TRUE)) : x \in 1..(k + 1)}
        BadIndex(w) == {[w EXCEPT ![p].index = x, ![p].named = x] :
                           p \in 1..k, x \in {0, k + 1}}
        Incoherent(w) ==
            {[w EXCEPT ![p].confidence =
                         IF w[p].matched_url = NULL THEN "low" ELSE NULL] :
                p \in 1..k}
        NonObject(w) == {[w EXCEPT ![p] = Junk(c)] : p \in 1..k}
                        \cup {Append(w, Junk(c))}
        w == Expected(call, c)
    IN  Reordered(w) \cup Omitted(w) \cup Surplus(w) \cup BadIndex(w)
        \cup Incoherent(w) \cup NonObject(w)

\* response text: a JSON array or something else, possibly inside a fence
Response(fenced, text, payload) ==
    [fenced |-> fenced, text |-> text, payload |-> payload]

\* "\n".join(lines[1:-1]) on a response that starts with a fence
StripFence(response) == [response EXCEPT !.fenced = FALSE]

\* value returned by match_titles_batch for a response that arrived
match_titles_batch(response) ==
    LET stripped == IF response.fenced THEN StripFence(response) ELSE response
    IN  IF stripped.text = "json" THEN stripped.payload ELSE <<>>

Errors == {"timeout"}

(***************************************************************************)
(* match_all_titles.                                                       *)
(***************************************************************************)
total == Len(scanned_titles)

LargePath == use_prefilter /\ CatalogLen(sitemap_recipes) > PrefilterMinCatalog

Init ==
    /\ scanned_titles \in DistinctSeqsUpTo(TitlePool, MaxTitles)
    /\ \E run \in RunPool : sitemap_recipes = run[1] /\ use_prefilter = run[2]
    /\ batch_size \in 1..MaxBatch
    /\ max_candidates = MAX_CANDIDATES_PER_TITLE
    /\ pc = "start"
    /\ i = 0
    /\ title_candidates = <<>>
    /\ all_matches = <<>>
    /\ batch_start = 0
    /\ calls = <<>>
    /\ progress = <<>>
    /\ _keyword_index = NoIndex
    /\ _indexed_recipes = 0
    /\ candidates = <<>>
    /\ result = <<>>
    /\ raised = NULL
    /\ deviations = 0
    /\ IdleExceptMatcher

\* "if candidates:" -- a Python list is true when it is not empty
Truthy_always(l) == TRUE

Truthy(l) == l # <<>>

\* lines 301-305: choose the prefilter path or the small-catalog path
Enter ==
    /\ pc = "start"
    /\ pc' = IF ~LargePath THEN "small"
             ELSE IF total = 0 THEN "batch" ELSE "prefilter"
    /\ UNCHANGED <<exceptMatcher, scanned_titles, sitemap_recipes, batch_size, use_prefilter,
                   max_candidates, i, title_candidates, all_matches,
                   batch_start, calls, progress, _keyword_index,
                   _indexed_recipes, candidates, result, raised, deviations>>

\* lines 312-324: one iteration of the prefilter loop
PrefilterTitle ==
    /\ pc = "prefilter"
    /\ i < total
    /\ LET title == scanned_titles[i + 1]
       IN  \E order \in PrefilterOrders(title, sitemap_recipes) :
             LET cands == prefilter_candidates(title, sitemap_recipes,
                                               max_candidates, order)
                 cache == CacheAfterPrefilter(title, sitemap_recipes)
             IN  /\ IF Truthy(cands)
                    THEN /\ title_candidates' =
                              Append(title_candidates,
                                     [idx |-> i, title |-> title,
                                      candidates |-> cands])
                         /\ UNCHANGED all_matches
                    ELSE /\ all_matches' =
                              Append(all_matches, LocalResult(i, title, NULL))
                         /\ UNCHANGED title_candidates
                 /\ _keyword_index' = cache[1]
                 /\ _indexed_recipes' = cache[2]
    /\ i' = i + 1
    /\ pc' = IF i + 1 = total THEN "batch" ELSE "prefilter"
    /\ UNCHANGED <<exceptMatcher, scanned_titles, sitemap_recipes, batch_size, use_prefilter,
                   max_candidates, batch_start, calls, progress,
                   candidates, result, raised, deviations>>

\* lines 337-347: dict keyed by URL, then list(values()): a URL keeps the
\* place of its first occurrence and the entry of its last occurrence
RECURSIVE Flatten(_)
Flatten(lists) ==
    IF lists = <<>> THEN <<>> ELSE Head(lists) \o Flatten(Tail(lists))

CombineByUrl_concat(flat) == flat

CombineByUrl(flat) ==
    LET firsts == {n \in 1..Len(flat) :
                     \A m \in 1..(n - 1) : flat[m].url # flat[n].url}
        LastOf(n) == CHOOSE m \in 1..Len(flat) :
                        /\ flat[m].url = flat[n].url
                        /\ \A q \in (m + 1)..Len(flat) : flat[q].url # flat[n].url
        keep == SelectSeq([n \in 1..Len(flat) |-> n], LAMBDA n : n \in firsts)
    IN  [n \in 1..Len(keep) |-> flat[LastOf(keep[n])]]

Call(titles, cands, padding, indices) ==
    [titles |-> titles, candidates |-> cands, padding |-> padding,
     indices |-> indices, outcome |-> "pending", text |-> NULL,
     returned |-> <<>>, error |-> NULL]

\* lines 332-354: build the next chunk, report progress, call the collaborator
SendChunk_concurrent ==
    /\ pc = "batch"
    /\ batch_start < Len(title_candidates)
    /\ LET batch == Slice(title_candidates, batch_start, batch_start + batch_size)
           batch_titles == [n \in 1..Len(batch) |-> batch[n].title]
           batch_indices == [n \in 1..Len(batch) |-> batch[n].idx]
           combined_list ==
               CombineByUrl(Flatten([n \in 1..Len(batch) |-> batch[n].candidates]))
       IN  calls' = Append(calls, Call(batch_titles, combined_list, 0, batch_indices))
    /\ progress' = Append(progress, <<batch_start, Len(title_candidates)>>)
    /\ batch_start' = batch_start + batch_size
    /\ pc' = IF batch_start + batch_size < Len(title_candidates)
             THEN "batch" ELSE "await"
    /\ UNCHANGED <<exceptMatcher, scanned_titles, sitemap_recipes, batch_size, use_prefilter,
                   max_candidates, i, title_candidates, all_matches,
                   _keyword_index, _indexed_recipes, candidates,
                   result, raised, deviations>>

SendChunk ==
    /\ pc = "batch"
    /\ batch_start < Len(title_candidates)
    /\ LET batch == Slice(title_candidates, batch_start, batch_start + batch_size)
           batch_titles == [n \in 1..Len(batch) |-> batch[n].title]
           batch_indices == [n \in 1..Len(batch) |-> batch[n].idx]
           combined_list ==
               CombineByUrl(Flatten([n \in 1..Len(batch) |-> batch[n].candidates]))
       IN  calls' = Append(calls, Call(batch_titles, combined_list, 0, batch_indices))
    /\ progress' = Append(progress, <<batch_start, Len(title_candidates)>>)
    /\ pc' = "await"
    /\ UNCHANGED <<exceptMatcher, scanned_titles, sitemap_recipes, batch_size, use_prefilter,
                   max_candidates, i, title_candidates, all_matches,
                   batch_start, _keyword_index, _indexed_recipes, candidates,
                   result, raised, deviations>>

\* lines 383-393: next chunk of the small-catalog path, the whole catalog is sent
SendChunkSmall ==
    /\ pc = "small"
    /\ i < total
    /\ LET batch == Slice(scanned_titles, i, i + batch_size)
       IN  calls' = Append(calls,
                       Call(batch, sitemap_recipes.entries, sitemap_recipes.padding,
                            [n \in 1..Len(batch) |-> i + n - 1]))
    /\ progress' = Append(progress, <<i, total>>)
    /\ pc' = "await"
    /\ UNCHANGED <<exceptMatcher, scanned_titles, sitemap_recipes, batch_size, use_prefilter,
                   max_candidates, i, title_candidates, all_matches,
                   batch_start, _keyword_index, _indexed_recipes, candidates,
                   result, raised, deviations>>

\* lines 365-373: one failed entry per title of the chunk
FailedEntries(call, err) ==
    [n \in 1..Len(call.indices) |-> LocalResult(call.indices[n], call.titles[n], err)]

\* lines 357-373: what the chunk loop appends for a returned list
Reattach(call, batch_matches) ==
    LET k == Len(call.indices)
        bad == {j \in 1..Min(Len(batch_matches), k) : ~batch_matches[j].isdict}
        first == CHOOSE j \in bad : \A q \in bad : j <= q
        Fixed(j) == IF j <= k
                    THEN [batch_matches[j] EXCEPT !.index = call.indices[j] + 1]
                    ELSE batch_matches[j]
    IN  IF bad = {}
        THEN [j \in 1..Len(batch_matches) |-> Fixed(j)]
        ELSE [j \in 1..(first - 1) |-> Fixed(j)] \o FailedEntries(call, "TypeError")

\* the chunk loop advancing by one title instead of batch_size
Receive_overlapping(response) ==
    LET c == Len(calls)
        call == calls[c]
        batch_matches == match_titles_batch(response)
    IN  /\ pc = "await"
        /\ calls' = [calls EXCEPT ![c].outcome = "returned",
                                  ![c].text = response.text,
                                  ![c].returned = batch_matches]
        /\ IF LargePath
           THEN /\ all_matches' = all_matches \o Reattach(call, batch_matches)
                /\ batch_start' = batch_start + 1
                /\ pc' = "batch"
                /\ UNCHANGED i
           ELSE /\ all_matches' = all_matches \o batch_matches
                /\ i' = i + batch_size
                /\ pc' = "small"
                /\ UNCHANGED batch_start
        /\ UNCHANGED <<exceptMatcher, scanned_titles, sitemap_recipes, batch_size,
                       use_prefilter, max_candidates, title_candidates,
                       progress, _keyword_index, _indexed_recipes, candidates,
                       result, raised>>

\* match_titles_batch returned for the chunk in flight
Receive(response) ==
    LET c == Len(calls)
        call == calls[c]
        batch_matches == match_titles_batch(response)
    IN  /\ pc = "await"
        /\ calls' = [calls EXCEPT ![c].outcome = "returned",
                                  ![c].text = response.text,
                                  ![c].returned = batch_matches]
        /\ IF LargePath
           THEN /\ all_matches' = all_matches \o Reattach(call, batch_matches)
                /\ batch_start' = batch_start + batch_size
                /\ pc' = "batch"
                /\ UNCHANGED i
           ELSE /\ all_matches' = all_matches \o batch_matches
                /\ i' = i + batch_size
                /\ pc' = "small"
                /\ UNCHANGED batch_start
        /\ UNCHANGED <<exceptMatcher, scanned_titles, sitemap_recipes, batch_size,
                       use_prefilter, max_candidates, title_candidates,
                       progress, _keyword_index, _indexed_recipes, candidates,
                       result, raised>>

\* the collaborator answers as asked (with or without a markdown fence)
CollaboratorAnswers ==
    /\ pc = "await"
    /\ \E fenced \in BOOLEAN :
          Receive(Response(fenced, "json", Expected(calls[Len(calls)], Len(calls))))
    /\ UNCHANGED deviations

\* the collaborator answers in the requested format, without a match for
\* some title
CollaboratorDeclines ==
    /\ pc = "await"
    /\ deviations < MaxDeviations
    /\ \E payload \in Declined(calls[Len(calls)], Len(calls)) :
          Receive(Response(FALSE, "json", payload))
    /\ deviations' = deviations + 1

\* the collaborator returns a JSON array that breaks the requested format
CollaboratorDeviates ==
    /\ pc = "await"
    /\ deviations < MaxDeviations
    /\ \E payload \in OffProtocol(calls[Len(calls)], Len(calls)) :
          Receive(Response(FALSE, "json", payload))
    /\ deviations' = deviations + 1

\* the collaborator returns text that json.loads rejects
CollaboratorGarbles ==
    /\ pc = "await"
    /\ deviations < MaxDeviations
    /\ \E fenced \in BOOLEAN : Receive(Response(fenced, "garbage", <<>>))
    /\ deviations' = deviations + 1

\* client.messages.create raises
CollaboratorFails ==
    /\ pc = "await"
    /\ deviations < MaxDeviations
    /\ \E e \in Errors :
          LET c == Len(calls)
              call == calls[c]
          IN  /\ calls' = [calls EXCEPT ![c].outcome = "raised", ![c].error = e]
              /\ IF LargePath
                 THEN /\ all_matches' = all_matches \o FailedEntries(call, e)
                      /\ batch_start' = batch_start + batch_size
                      /\ pc' = "batch"
                      /\ UNCHANGED raised
                 ELSE /\ pc' = "aborted"
                      /\ raised' = e
                      /\ UNCHANGED <<all_matches, batch_start>>
    /\ deviations' = deviations + 1
    /\ UNCHANGED <<exceptMatcher, scanned_titles, sitemap_recipes, batch_size, use_prefilter,
                   max_candidates, i, title_candidates, progress,
                   _keyword_index, _indexed_recipes, candidates, result>>

\* list.sort(key=lambda x: x.get("index", 0)): stable, ascending
RECURSIVE InsertByIndex(_, _)
InsertByIndex(sorted, x) ==
    IF sorted = <<>> THEN <<x>>
    ELSE IF x.index < sorted[Len(sorted)].index
         THEN Append(InsertByIndex(SubSeq(sorted, 1, Len(sorted) - 1), x),
                     sorted[Len(sorted)])
         ELSE Append(sorted, x)

RECURSIVE SortByIndex(_)
SortByIndex(l) ==
    IF l = <<>> THEN <<>>
    ELSE InsertByIndex(SortByIndex(SubSeq(l, 1, Len(l) - 1)), l[Len(l)])

\* lines 375-380: final progress event, sort, return; x.get fails on a
\* list element that is not a dict
ReturnSorted ==
    /\ pc = "batch"
    /\ batch_start >= Len(title_candidates)
    /\ progress' = Append(progress, <<total, total>>)
    /\ IF \E n \in 1..Len(all_matches) : ~all_matches[n].isdict
       THEN /\ pc' = "aborted"
            /\ raised' = "AttributeError"
            /\ UNCHANGED result
       ELSE /\ pc' = "done"
            /\ result' = SortByIndex(all_matches)
            /\ UNCHANGED raised
    /\ UNCHANGED <<exceptMatcher, scanned_titles, sitemap_recipes, batch_size, use_prefilter,
                   max_candidates, i, title_candidates, all_matches,
                   batch_start, calls, _keyword_index, _indexed_recipes,
                   candidates, deviations>>

\* lines 396-399: final progress event and return of the small-catalog path
ReturnSmall ==
    /\ pc = "small"
    /\ i >= total
    /\ progress' = Append(progress, <<total, total>>)
    /\ pc' = "done"
    /\ result' = all_matches
    /\ UNCHANGED <<exceptMatcher, scanned_titles, sitemap_recipes, batch_size, use_prefilter,
                   max_candidates, i, title_candidates, all_matches,
                   batch_start, calls, _keyword_index, _indexed_recipes,
                   candidates, raised, deviations>>

Next ==
    \/ Enter
    \/ PrefilterTitle
    \/ SendChunk
    \/ SendChunkSmall
    \/ CollaboratorAnswers
    \/ CollaboratorDeclines
    \/ CollaboratorDeviates
    \/ CollaboratorGarbles
    \/ CollaboratorFails
    \/ ReturnSorted
    \/ ReturnSmall

Spec == Init /\ [][Next]_vars

(***************************************************************************)
(* A direct call of prefilter_candidates on one title and one catalog.     *)
(***************************************************************************)
InitPrefilter ==
    /\ scanned_titles \in {<<t>> : t \in TitlePool}
    /\ sitemap_recipes \in
          {Catalog(e, 0) : e \in DistinctSeqsUpTo(EntryPool, MaxCatalog)}
    /\ max_candidates \in 1..MaxK
    /\ batch_size = 1
    /\ use_prefilter = TRUE
    /\ pc = "prefilter_call"
    /\ i = 0
    /\ title_candidates = <<>>
    /\ all_matches = <<>>
    /\ batch_start = 0
    /\ calls = <<>>
    /\ progress = <<>>
    /\ _keyword_index = NoIndex
    /\ _indexed_recipes = 0
    /\ candidates = <<>>
    /\ result = <<>>
    /\ raised = NULL
    /\ deviations = 0
    /\ IdleExceptMatcher

\* an entry of the history of direct calls
IndexCall(fn, cat, built, hit, returned, indices) ==
    [fn |-> fn, id |-> cat.id, built |-> built, hit |-> hit,
     returned |-> returned, indices |-> indices]

\* lines 138-180; sitemap_recipes[idx] raises IndexError for a position
\* outside the catalog
PrefilterCall ==
    /\ pc = "prefilter_call"
    /\ LET scanned_kws == extract_keywords(scanned_titles[1])
           hit == CacheHit(sitemap_recipes)
           keyword_index == build_keyword_index(sitemap_recipes)
           candidate_indices == CandidateIndices(scanned_kws, keyword_index)
       IN  IF scanned_kws = {}
           THEN /\ candidates' = <<>>
                /\ index_calls' =
                      Append(index_calls,
                             IndexCall("prefilter", sitemap_recipes, FALSE, FALSE,
                                       NoIndex.map, {}))
                /\ pc' = "prefilter_done"
                /\ UNCHANGED <<_keyword_index, _indexed_recipes, raised>>
           ELSE /\ _keyword_index' = CacheAfterBuild(sitemap_recipes)[1]
                /\ _indexed_recipes' = CacheAfterBuild(sitemap_recipes)[2]
                /\ index_calls' =
                      Append(index_calls,
                             IndexCall("prefilter", sitemap_recipes, TRUE, hit,
                                       keyword_index, candidate_indices))
                /\ IF \E idx \in candidate_indices :
                          idx >= CatalogLen(sitemap_recipes)
                   THEN /\ raised' = "IndexError"
                        /\ pc' = "prefilter_raised"
                        /\ UNCHANGED candidates
                   ELSE /\ \E order \in Orders(candidate_indices) :
                             candidates' =
                                 prefilter_with(scanned_titles[1], sitemap_recipes,
                                                keyword_index, max_candidates, order)
                        /\ pc' = "prefilter_done"
                        /\ UNCHANGED raised
    /\ UNCHANGED <<exceptIndexCalls, scanned_titles, sitemap_recipes, batch_size,
                   use_prefilter, max_candidates, i, title_candidates,
                   all_matches, batch_start, calls, progress, result,
                   deviations>>

NextPrefilter == PrefilterCall

SpecPrefilter == InitPrefilter /\ [][NextPrefilter]_vars

(***************************************************************************)
(* A direct call of prefilter_candidates on a one-entry catalog, title and *)
(* name with chosen numbers of keywords and of shared keywords.            *)
(***************************************************************************)
QueryWords ==
    <<"chicken", "teriyaki", "bowl", "rice", "garlic", "ginger", "sesame",
      "broccoli", "carrot", "noodles", "scallion", "cashew">>

NameWords ==
    <<"creamy", "tuscan", "pasta", "spinach", "tomato", "parmesan", "basil",
      "lemon", "pepper", "orzo", "olive", "caper">>

\* a title of q keywords
ThresholdTitle(q) == SubSeq(QueryWords, 1, q)

\* a name of c keywords, m of them keywords of every title of at least m
ThresholdName(m, c) == SubSeq(QueryWords, 1, m) \o SubSeq(NameWords, 1, c - m)

InitThreshold ==
    /\ \E q \in 1..MaxQueryKeywords, c \in 1..MaxNameKeywords :
          \E m \in 1..Min(MaxShared, Min(q, c)) :
              /\ scanned_titles = <<ThresholdTitle(q)>>
              /\ sitemap_recipes = Catalog(<<Entry(ThresholdName(m, c), "u1")>>, 0)
    /\ max_candidates = MAX_CANDIDATES_PER_TITLE
    /\ batch_size = 1
    /\ use_prefilter = TRUE
    /\ pc = "prefilter_call"
    /\ i = 0
    /\ title_candidates = <<>>
    /\ all_matches = <<>>
    /\ batch_start = 0
    /\ calls = <<>>
    /\ progress = <<>>
    /\ _keyword_index = NoIndex
    /\ _indexed_recipes = 0
    /\ candidates = <<>>
    /\ result = <<>>
    /\ raised = NULL
    /\ deviations = 0
    /\ IdleExceptMatcher

SpecThreshold == InitThreshold /\ [][NextPrefilter]_vars

(***************************************************************************)
(* A caller that calls prefilter_candidates and build_keyword_index one    *)
(* after the other on catalog objects of its choice.  The objects are not  *)
(* modified between the calls.                                             *)
(***************************************************************************)
Object(id, entries) == [id |-> id, entries |-> entries, padding |-> 0]

\* two equal catalogs that are different objects, and a shorter catalog
CachePool ==
    { Object(1, ScenarioEntries),
      Object(2, ScenarioEntries),
      Object(3, <<KaleSalad, BeefTacos>>) }

CacheTitles ==
    { <<"chicken", "teriyaki", "bowl">>,
      <<"beef", "tacos", "with", "salsa">>,
      <<"kale", "salad">>,
      <<"hello", "fresh", "meal", "kit">> }

InitCache ==
    /\ pc = "caller"
    /\ MatcherIdle
    /\ index_calls = <<>>
    /\ IdleExceptIndexCalls

\* the caller chooses the next call and its arguments
NextCall ==
    /\ pc \in {"caller", "prefilter_done", "prefilter_raised", "build_done"}
    /\ Len(index_calls) < MaxCalls
    /\ sitemap_recipes' \in CachePool
    /\ \/ /\ pc' = "prefilter_call"
          /\ \E t \in CacheTitles : scanned_titles' = <<t>>
       \/ /\ pc' = "build_call"
          /\ UNCHANGED scanned_titles
    /\ UNCHANGED <<exceptMatcher, batch_size, use_prefilter,
                   max_candidates, i, title_candidates, all_matches,
                   batch_start, calls, progress, _keyword_index,
                   _indexed_recipes, candidates, result, raised, deviations>>

\* lines 33-63
BuildCall ==
    /\ pc = "build_call"
    /\ _keyword_index' = CacheAfterBuild(sitemap_recipes)[1]
    /\ _indexed_recipes' = CacheAfterBuild(sitemap_recipes)[2]
    /\ index_calls' =
          Append(index_calls,
                 IndexCall("build", sitemap_recipes, TRUE, CacheHit(sitemap_recipes),
                           build_keyword_index(sitemap_recipes), {}))
    /\ pc' = "build_done"
    /\ UNCHANGED <<exceptIndexCalls, scanned_titles, sitemap_recipes, batch_size,
                   use_prefilter, max_candidates, i, title_candidates,
                   all_matches, batch_start, calls, progress, candidates,
                   result, raised, deviations>>

NextCache ==
    \/ NextCall
    \/ PrefilterCall
    \/ BuildCall

SpecCache == InitCache /\ [][NextCache]_vars

(***************************************************************************)
(* A direct call of score_candidate.                                       *)
(***************************************************************************)
ScoreWords == {"chicken", "ch1cken", "stir", "fry", "vegetables"}

ScoreNames ==
    { <<"hello", "fresh">>,
      <<"chicken", "stir", "fry", "vegetables">>,
      <<"chicken", "stir", "fry">>,
      <<"stir", "fry", "with", "chicken">>,
      <<"ch1cken", "stir", "fry">>,
      <<"vegetables">>,
      <<"beef", "tacos">> }

InitScore ==
    /\ pc = "score_call"
    /\ scanned_keywords \in
          {Q \in SUBSET ScoreWords : Cardinality(Q) <= MaxScoreQuery}
    /\ candidate_name \in ScoreNames
    /\ score = Zero
    /\ score_float = DoubleZero
    /\ IdleExceptScorer

\* lines 110-135
ScoreCall ==
    /\ pc = "score_call"
    /\ score' = score_candidate(scanned_keywords, candidate_name)
    /\ score_float' = score_candidate_float(scanned_keywords, candidate_name)
    /\ pc' = "score_done"
    /\ UNCHANGED <<exceptScorer, scanned_keywords, candidate_name>>

NextScore == ScoreCall

SpecScore == InitScore /\ [][NextScore]_vars

(***************************************************************************)
(* Summary of a result list (summarize_matches).  Only the keys            *)
(* matched_url and confidence of a result are read; NULL stands for None   *)
(* or for a missing key.                                                   *)
(***************************************************************************)
\* truth value of m.get("matched_url"): None and the empty string are false
HasUrl(m) == m.matched_url # NULL /\ m.matched_url # ""

Count(l, Test(_)) == Cardinality({n \in 1..Len(l) : Test(l[n])})

\* f"{matched/total*100:.1f}%": the percentage in tenths, ties to even; with
\* totals of the model's size no percentage falls on a tie
PercentTenths(matched, of) ==
    LET q == (matched * 1000) \div of
        r == (matched * 1000) % of
    IN  IF 2 * r > of \/ (2 * r = of /\ q % 2 = 1) THEN q + 1 ELSE q

by_confidence(l) ==
    [c \in {"high", "medium", "low"} |-> Count(l, LAMBDA m : m.confidence = c)]

summarize_matches(l) ==
    [total |-> Len(l),
     matched |-> Count(l, HasUrl),
     unmatched |-> Len(l) - Count(l, HasUrl),
     match_rate |-> IF Len(l) > 0 THEN PercentTenths(Count(l, HasUrl), Len(l))
                    ELSE "0%",
     by_confidence |-> by_confidence(l)]

\* result dicts given to summarize_matches
SummaryResult(url, conf) == [matched_url |-> url, confidence |-> conf]

SummaryPool ==
    {SummaryResult(url, conf) :
        url \in {NULL, "", "u1", "u2"},
        conf \in {NULL, "high", "medium", "low", "certain"}}

InitSummary ==
    /\ pc = "summary_call"
    /\ summarized \in SeqsUpTo(SummaryPool, MaxMatches)
    /\ summary = NULL
    /\ IdleExceptSummary

SummarizeCall ==
    /\ pc = "summary_call"
    /\ summary' = summarize_matches(summarized)
    /\ pc' = "summary_done"
    /\ UNCHANGED <<exceptSummary, summarized>>

NextSummary == SummarizeCall

SpecSummary == InitSummary /\ [][NextSummary]_vars

(***************************************************************************)
(* Catalog source (sitemap.py) and the match command (cli.py).             *)
(* A sitemap document is the sequence of its url elements, each with the   *)
(* XML namespace it is written in and its loc text, and a count of further *)
(* url elements whose last path segment is a number of its own (the name   *)
(* "12" has no keyword).  A list of recipes is likewise its leading        *)
(* entries and the count of the numbered ones after them.  A sitemap URL   *)
(* is a string; UrlSlug is the result of the regular expressions of        *)
(* extract_recipe_name_from_url on it: the words of the last path segment  *)
(* without the 24-digit hexadecimal suffix.                                *)
(***************************************************************************)
Countries == <<"au", "uk", "us", "de", "nz">>

UrlSlug ==
    [u \in {"au/recipes/chicken-teriyaki-bowl-with-rice-a1",
            "au/recipes/beef-tacos-with-fresh-salsa-a2",
            "au/recipes/kale-salad-a3",
            "au/recipes/kale-salad-c3",
            "uk/recipes/kale-salad-b3",
            "uk/recipes/chicken-tacos-b4"} |->
        CASE u = "au/recipes/chicken-teriyaki-bowl-with-rice-a1" ->
                 <<"chicken", "teriyaki", "bowl", "with", "rice">>
          [] u = "au/recipes/beef-tacos-with-fresh-salsa-a2" ->
                 <<"beef", "tacos", "with", "fresh", "salsa">>
          [] u = "au/recipes/kale-salad-a3" -> <<"kale", "salad">>
          [] u = "au/recipes/kale-salad-c3" -> <<"kale", "salad">>
          [] u = "uk/recipes/kale-salad-b3" -> <<"kale", "salad">>
          [] u = "uk/recipes/chicken-tacos-b4" -> <<"chicken", "tacos">>]

\* hyphens become spaces and str.title() capitalises every word
extract_recipe_name_from_url(url) ==
    [n \in 1..Len(UrlSlug[url]) |-> Title(UrlSlug[url][n])]

UrlElement(ns, loc) == [ns |-> ns, loc |-> loc]

Document(urls, numbered) == [urls |-> urls, numbered |-> numbered]

RecipeList(entries, padding) == [entries |-> entries, padding |-> padding]

\* both namespaces are searched, the https one first
parse_sitemap(xml_content) ==
    LET found == SelectSeq(xml_content.urls, LAMBDA el : el.ns = "https")
                 \o SelectSeq(xml_content.urls, LAMBDA el : el.ns = "http")
    IN  RecipeList([n \in 1..Len(found) |->
                       [url |-> found[n].loc,
                        name |-> extract_recipe_name_from_url(found[n].loc)]],
                   xml_content.numbered)

\* the sitemap documents served: the Australian one either lists every
\* recipe once, or lists one recipe under two identifiers and one URL twice
AuSitemap ==
    Document(<< UrlElement("https", "au/recipes/chicken-teriyaki-bowl-with-rice-a1"),
                UrlElement("https", "au/recipes/beef-tacos-with-fresh-salsa-a2"),
                UrlElement("https", "au/recipes/kale-salad-a3") >>, 0)

AuSitemapRepeating ==
    Document(<< UrlElement("https", "au/recipes/kale-salad-a3"),
                UrlElement("https", "au/recipes/beef-tacos-with-fresh-salsa-a2"),
                UrlElement("https", "au/recipes/kale-salad-c3"),
                UrlElement("https", "au/recipes/beef-tacos-with-fresh-salsa-a2") >>, 0)

UkSitemap ==
    Document(<< UrlElement("http", "uk/recipes/kale-salad-b3"),
                UrlElement("http", "uk/recipes/chicken-tacos-b4") >>, 0)

\* the last region's sitemap lists numbered recipes only
NzSitemap == Document(<<>>, LargePadding)

Served(xml) == [ok |-> TRUE, xml |-> xml]
Failing == [ok |-> FALSE, xml |-> Document(<<>>, 0)]

\* what the five sitemap URLs answer: each a document, or an HTTP failure
ResponsePool ==
    { [c \in 1..Len(Countries) |->
          IF Countries[c] \in down THEN Failing
          ELSE IF Countries[c] = "au" THEN Served(au)
          ELSE IF Countries[c] = "uk" THEN Served(UkSitemap)
          ELSE IF Countries[c] = "nz" THEN Served(NzSitemap)
          ELSE Served(Document(<<>>, 0))] :
      down \in {{}, {"uk"}, {"au"}, {"au", "uk", "us", "de", "nz"}},
      au \in {AuSitemap, AuSitemapRepeating} }

CountryNo(c) == CHOOSE n \in 1..Len(Countries) : Countries[n] = c

NoCacheFile == [fresh |-> FALSE, recipes |-> RecipeList(<<>>, 0)]
CacheFile(list) == [fresh |-> TRUE, recipes |-> list]

\* the cache directory at the start: empty, or holding a file for the
\* Australian sitemap written less than 24 hours ago
CachePoolFiles ==
    { [c \in 1..Len(Countries) |-> NoCacheFile],
      [c \in 1..Len(Countries) |->
          IF Countries[c] = "au" THEN CacheFile(parse_sitemap(AuSitemap))
          ELSE NoCacheFile] }

\* fetch_and_parse_sitemap with use_cache = True: the list returned or the
\* failure raised, and the cache file afterwards
fetch_and_parse_sitemap(c) ==
    LET n == CountryNo(c)
    IN  IF cache_files[n].fresh
        THEN [ok |-> TRUE, recipes |-> cache_files[n].recipes,
              file |-> cache_files[n]]
        ELSE IF ~responses[n].ok
        THEN [ok |-> FALSE, recipes |-> RecipeList(<<>>, 0),
              file |-> cache_files[n]]
        ELSE [ok |-> TRUE, recipes |-> parse_sitemap(responses[n].xml),
              file |-> CacheFile(parse_sitemap(responses[n].xml))]

\* r["country"] = country
Tagged(list, c) ==
    RecipeList([n \in 1..Len(list.entries) |->
                   [url |-> list.entries[n].url, name |-> list.entries[n].name,
                    country |-> c]],
               list.padding)

\* all_recipes.extend(recipes); the numbered recipes are those of the last
\* region, so they stay behind the leading entries
Extend(list, more) ==
    RecipeList(list.entries \o more.entries, list.padding + more.padding)

name_lower(r) == [n \in 1..Len(r.name) |-> Lower(r.name[n])]

\* lines 215-225 of sitemap.py: the first entry of every lower-cased name;
\* every numbered recipe has a name of its own
Deduplicate(list) ==
    LET l == list.entries
        kept == {n \in 1..Len(l) :
                   ~\E m \in 1..(n - 1) : name_lower(l[m]) = name_lower(l[n])}
        nth[k \in 1..Cardinality(kept)] ==
            CHOOSE n \in kept : Cardinality({m \in kept : m < n}) = k - 1
    IN  RecipeList([k \in 1..Cardinality(kept) |-> l[nth[k]]], list.padding)

\* the titles file of the command: the three titles of the scenario
CliTitles ==
    << <<"chicken", "teriyaki", "bowl">>,
       <<"xyz", "unmatchable", "noise">>,
       <<"beef", "tacos", "with", "salsa">> >>

InitCli ==
    /\ pc = "cli_fetch"
    /\ country \in Range(Countries) \cup {"all"}
    /\ responses \in ResponsePool
    /\ cache_files \in CachePoolFiles
    /\ fetch_pos = 0
    /\ all_recipes = RecipeList(<<>>, 0)
    /\ recipes = RecipeList(<<>>, 0)
    /\ fetch_errors = <<>>
    /\ cli_raised = NULL
    /\ scanned_titles = CliTitles
    /\ batch_size \in 1..MaxBatch
    /\ sitemap_recipes = Catalog(<<>>, 0)
    /\ use_prefilter = TRUE
    /\ max_candidates = MAX_CANDIDATES_PER_TITLE
    /\ i = 0
    /\ title_candidates = <<>>
    /\ all_matches = <<>>
    /\ batch_start = 0
    /\ calls = <<>>
    /\ progress = <<>>
    /\ _keyword_index = NoIndex
    /\ _indexed_recipes = 0
    /\ candidates = <<>>
    /\ result = <<>>
    /\ raised = NULL
    /\ deviations = 0
    /\ ScorerIdle
    /\ index_calls = <<>>
    /\ SummaryIdle
    /\ MealieIdle
    /\ ImportIdle

\* cli.py lines 166-168: one region; a failure of the fetch leaves the command
FetchOneRegion ==
    /\ pc = "cli_fetch"
    /\ country # "all"
    /\ LET got == fetch_and_parse_sitemap(country)
       IN  /\ cache_files' = [cache_files EXCEPT ![CountryNo(country)] = got.file]
           /\ IF got.ok
              THEN /\ recipes' = got.recipes
                   /\ pc' = "cli_loaded"
                   /\ UNCHANGED cli_raised
              ELSE /\ pc' = "cli_aborted"
                   /\ cli_raised' = "HTTPError"
                   /\ UNCHANGED recipes
    /\ UNCHANGED <<exceptCli, summaryVars, country, responses, fetch_pos,
                   all_recipes, fetch_errors>>

\* sitemap.py lines 204-213: one iteration of the loop of fetch_all_sitemaps;
\* an exception of the fetch is printed and the loop goes on
FetchNextCountry ==
    /\ pc = "cli_fetch"
    /\ country = "all"
    /\ fetch_pos < Len(Countries)
    /\ LET c == Countries[fetch_pos + 1]
           got == fetch_and_parse_sitemap(c)
       IN  /\ cache_files' = [cache_files EXCEPT ![fetch_pos + 1] = got.file]
           /\ IF got.ok
              THEN /\ all_recipes' = Extend(all_recipes, Tagged(got.recipes, c))
                   /\ UNCHANGED fetch_errors
              ELSE /\ fetch_errors' = Append(fetch_errors, c)
                   /\ UNCHANGED all_recipes
    /\ fetch_pos' = fetch_pos + 1
    /\ pc' = pc
    /\ UNCHANGED <<exceptCli, summaryVars, country, responses, recipes,
                   cli_raised>>

\* sitemap.py lines 215-227 and cli.py line 165: deduplicate and return
FetchAllReturn ==
    /\ pc = "cli_fetch"
    /\ country = "all"
    /\ fetch_pos = Len(Countries)
    /\ recipes' = Deduplicate(all_recipes)
    /\ pc' = "cli_loaded"
    /\ UNCHANGED <<exceptCli, summaryVars, country, responses, cache_files,
                   fetch_pos, all_recipes, fetch_errors, cli_raised>>

\* cli.py lines 172-178: match_all_titles is entered with the catalog loaded
CallMatchAllTitles ==
    /\ pc = "cli_loaded"
    /\ sitemap_recipes' = Catalog(recipes.entries, recipes.padding)
    /\ pc' = "start"
    /\ UNCHANGED <<scorerVars, index_calls, cliVars, summaryVars, mealieVars,
                   importVars,
                   scanned_titles, batch_size,
                   use_prefilter, max_candidates, i, title_candidates,
                   all_matches, batch_start, calls, progress, _keyword_index,
                   _indexed_recipes, candidates, result, raised, deviations>>

\* cli.py lines 180-185: the matches are saved and summarised
SaveMatches ==
    /\ pc = "done"
    /\ summarized' = result
    /\ summary' = summarize_matches(result)
    /\ pc' = "cli_done"
    /\ UNCHANGED <<exceptCli, cliVars>>

NextCli ==
    \/ FetchOneRegion
    \/ FetchNextCountry
    \/ FetchAllReturn
    \/ CallMatchAllTitles
    \/ Next
    \/ SaveMatches

SpecCli == InitCli /\ [][NextCli]_vars

(***************************************************************************)
(* Mealie client (src/mealie_mcp/client.py) and the MCP tools built on it  *)
(* (tools/shopping.py, tools/mealplans.py), with the Mealie server as the  *)
(* environment.  One HTTP exchange has an outcome: an exception raised by  *)
(* the HTTP library, or a status with a body that is as documented ("ok"), *)
(* not JSON, or JSON of another shape.  An endpoint and a message are      *)
(* tuples of their parts.  A value a method hands back carries its kind:   *)
(* ErrorResponse, value, None, or raised for an exception leaving it.  The *)
(* identifier of a shopping list item is its number.                       *)
(***************************************************************************)
Outcome(exc, status, body) == [exc |-> exc, status |-> status, body |-> body]

Outcomes ==
    {Outcome(e, 0, "ok") : e \in {"ConnectError", "ConnectTimeout",
                                  "ReadTimeout", "ReadError"}}
    \cup {Outcome(NULL, 200, b) : b \in {"ok", "not_json", "wrong_shape"}}
    \cup {Outcome(NULL, st, "ok") : st \in {204, 401, 404, 422, 500}}

\* isinstance(e, cls) for the exception classes of the except clauses
IsInstance(e, cls) ==
    CASE cls = "ConnectError" -> e = "ConnectError"
      [] cls = "TimeoutException" -> e \in {"ConnectTimeout", "ReadTimeout"}
      [] cls = "HTTPStatusError" -> e = "HTTPStatusError"
      [] OTHER -> TRUE

ErrorValue(code, message) ==
    [kind |-> "ErrorResponse", error |-> TRUE, code |-> code, message |-> message]

not_found(resource, identifier) ==
    ErrorValue("NOT_FOUND", <<resource, identifier, "not found">>)

auth_error(message) == ErrorValue("AUTH_ERROR", message)

api_error(message) == ErrorValue("API_ERROR", message)

Value(v) == [kind |-> "value", value |-> v]
None == [kind |-> "None"]
Raised(e) == [kind |-> "raised", exc |-> e]

IsError(r) == r.kind = "ErrorResponse"

\* the server's state: the items of the shopping list and the meal plan
Item(id, note, checked) == [id |-> id, note |-> note, checked |-> checked]

BackendPool ==
    { [items |-> <<>>, plans |-> <<>>],
      [items |-> <<Item(1, "milk", TRUE), Item(2, "eggs", FALSE)>>,
       plans |-> <<>>],
      [items |-> <<Item(1, "milk", TRUE), Item(2, "eggs", TRUE)>>,
       plans |-> <<>>] }

\* the documented answer of the server to a request, and the server's
\* state after a request that it answers with a 2xx status
Answer(state, verb, endpoint, json) ==
    CASE endpoint = <<"/users/self">> -> [groupId |-> "group-1"]
      [] endpoint = <<"/recipes">> -> <<[slug |-> "recipe-1"]>>
      [] endpoint[1] = "/recipes" /\ Len(endpoint) = 2 ->
             [id |-> "0a1b2c3d-0000-4000-8000-000000000001", slug |-> endpoint[2]]
      [] endpoint = <<"/households/shopping/lists">> ->
             <<[id |-> "list-1", name |-> "Groceries"]>>
      [] endpoint[1] = "/households/shopping/lists" /\ Len(endpoint) = 2 ->
             [id |-> endpoint[2], name |-> "Groceries", list_items |-> state.items]
      [] endpoint[1] = "/households/shopping/lists" /\ verb = "POST" ->
             Item(Len(state.items) + 1, json.note, FALSE)
      [] endpoint = <<"/households/mealplans">> /\ verb = "POST" ->
             [id |-> "entry-1", date |-> json.date, entry_type |-> json.entryType,
              recipe_id |-> json.recipeId]
      [] OTHER -> [success |-> TRUE]

Apply(state, verb, endpoint, json) ==
    CASE verb = "POST" /\ endpoint[1] = "/households/shopping/lists" ->
             [state EXCEPT !.items = Append(@, Answer(state, verb, endpoint, json))]
      [] verb = "DELETE" /\ endpoint[1] = "/households/shopping/lists" ->
             [state EXCEPT !.items = SelectSeq(@, LAMBDA it : it.id # endpoint[4])]
      [] verb = "POST" /\ endpoint = <<"/households/mealplans">> ->
             [state EXCEPT !.plans = Append(@, Answer(state, verb, endpoint, json))]
      [] OTHER -> state

Is2xx(status) == status \in 200..299

\* the conversation with the server so far
Wire(log, state) == [log |-> log, backend |-> state]

Exchange(verb, endpoint, out) == [verb |-> verb, endpoint |-> endpoint, outcome |-> out]

Sent(wire, verb, endpoint, json, out) ==
    Wire(Append(wire.log, Exchange(verb, endpoint, out)),
         IF out.exc = NULL /\ Is2xx(out.status)
         THEN Apply(wire.backend, verb, endpoint, json)
         ELSE wire.backend)

\* lines 117-134 of client.py: the try block of _request
RequestBody_status_first(state, verb, endpoint, json, out) ==
    IF out.exc # NULL THEN Raised(out.exc)
    ELSE IF ~Is2xx(out.status) THEN Raised("HTTPStatusError")
    ELSE IF out.status = 401
    THEN auth_error(<<"Invalid or expired Mealie API token">>)
    ELSE IF out.status = 404 THEN not_found("Resource", endpoint)
    ELSE IF out.status = 204 THEN Value([success |-> TRUE])
    ELSE IF out.body = "not_json" THEN Raised("JSONDecodeError")
    ELSE [kind |-> "value", shape |-> out.body,
          value |-> Answer(state, verb, endpoint, json)]

RequestBody(state, verb, endpoint, json, out) ==
    IF out.exc # NULL THEN Raised(out.exc)
    ELSE IF out.status = 401
    THEN auth_error(<<"Invalid or expired Mealie API token">>)
    ELSE IF out.status = 404 THEN not_found("Resource", endpoint)
    ELSE IF ~Is2xx(out.status) THEN Raised("HTTPStatusError")
    ELSE IF out.status = 204 THEN Value([success |-> TRUE])
    ELSE IF out.body = "not_json" THEN Raised("JSONDecodeError")
    ELSE [kind |-> "value", shape |-> out.body,
          value |-> Answer(state, verb, endpoint, json)]

\* lines 136-143 of client.py: the except clauses of _request, in order
_request(state, verb, endpoint, json, out) ==
    LET tried == RequestBody(state, verb, endpoint, json, out)
    IN  IF tried.kind # "raised" THEN tried
        ELSE IF IsInstance(tried.exc, "ConnectError")
        THEN api_error(<<"Cannot connect to Mealie at", "base_url">>)
        ELSE IF IsInstance(tried.exc, "TimeoutException")
        THEN api_error(<<"Request to Mealie timed out">>)
        ELSE IF IsInstance(tried.exc, "HTTPStatusError")
        THEN api_error(<<"HTTP", out.status>>)
        ELSE api_error(<<"Unexpected error", tried.exc>>)

\* a method's outcome: what it hands back and the conversation after it
Done(ret, wire) == [ret |-> ret, wire |-> wire]

\* Model.model_validate(result): pydantic raises on JSON of another shape
model_validate(obj) ==
    IF obj.shape = "ok" THEN Value(obj.value) ELSE Raised("ValidationError")

\* one call of _request and the conversation after it
Request(wire, verb, endpoint, json, out) ==
    Done(_request(wire.backend, verb, endpoint, json, out),
         Sent(wire, verb, endpoint, json, out))

\* lines 79-89: get_group_id answers None when the request fails
get_group_id(wire, outs) ==
    LET r == Request(wire, "GET", <<"/users/self">>, NULL, outs[1])
    IN  IF r.ret.kind = "value" /\ "shape" \in DOMAIN r.ret /\ r.ret.shape = "ok"
        THEN Done(Value(r.ret.value.groupId), r.wire)
        ELSE Done(None, r.wire)

\* lines 148-189: search_recipes without filters
search_recipes(wire, outs) ==
    LET r == Request(wire, "GET", <<"/recipes">>, NULL, outs[1])
    IN  IF IsError(r.ret) THEN r
        ELSE IF "shape" \notin DOMAIN r.ret
        THEN Done(Raised("ValidationError"), r.wire)
        ELSE Done(model_validate(r.ret), r.wire)

\* the pattern of get_recipe, get_shopping_list and delete_meal_plan_entry:
\* NOT_FOUND is rewritten to name the resource and its identifier
Renamed(r, resource, identifier) ==
    IF IsError(r.ret) /\ r.ret.code = "NOT_FOUND"
    THEN Done(not_found(resource, identifier), r.wire)
    ELSE r

Validated(r) ==
    IF IsError(r.ret) THEN r
    ELSE IF "shape" \notin DOMAIN r.ret THEN Done(Raised("ValidationError"), r.wire)
    ELSE Done(model_validate(r.ret), r.wire)

\* lines 191-207
get_recipe(wire, slug, outs) ==
    Validated(Renamed(Request(wire, "GET", <<"/recipes", slug>>, NULL, outs[1]),
                      "Recipe", slug))

\* lines 308-324
delete_meal_plan_entry(wire, entry_id, outs) ==
    LET r == Renamed(Request(wire, "DELETE", <<"/households/mealplans", entry_id>>,
                             NULL, outs[1]),
                     "Meal plan entry", entry_id)
    IN  IF IsError(r.ret) THEN r
        ELSE Done(Value([success |-> TRUE]), r.wire)

\* lines 327-340
get_shopping_lists(wire, outs) ==
    Validated(Request(wire, "GET", <<"/households/shopping/lists">>, NULL, outs[1]))

\* lines 342-358
get_shopping_list(wire, list_id, outs) ==
    Validated(Renamed(Request(wire, "GET", <<"/households/shopping/lists", list_id>>,
                              NULL, outs[1]),
                      "Shopping list", list_id))

\* lines 360-386
add_shopping_list_item(wire, list_id, note, outs) ==
    Validated(Request(wire, "POST",
                      <<"/households/shopping/lists", list_id, "items">>,
                      [note |-> note, quantity |-> 1, checked |-> FALSE], outs[1]))

\* lines 388-407
delete_shopping_list_item(wire, list_id, item_id, outs) ==
    LET r == Request(wire, "DELETE",
                     <<"/households/shopping/lists", list_id, "items", item_id>>,
                     NULL, outs[1])
    IN  IF IsError(r.ret) THEN r
        ELSE Done(Value([success |-> TRUE]), r.wire)

\* a loop that ends at the first deletion that fails
RECURSIVE DeleteEach_until_failure(_, _, _, _, _)
DeleteEach_until_failure(wire, list_id, items, outs, removed_count) ==
    IF items = <<>>
    THEN Done(Value([success |-> TRUE, removed_count |-> removed_count]), wire)
    ELSE LET r == delete_shopping_list_item(wire, list_id, Head(items).id, outs)
         IN  IF IsError(r.ret)
             THEN Done(Value([success |-> TRUE, removed_count |-> removed_count]),
                       r.wire)
             ELSE DeleteEach_until_failure(r.wire, list_id, Tail(items),
                                           Tail(outs), removed_count + 1)

\* lines 429-433: the loop over the checked items; failures are not counted
RECURSIVE DeleteEach(_, _, _, _, _)
DeleteEach(wire, list_id, items, outs, removed_count) ==
    IF items = <<>>
    THEN Done(Value([success |-> TRUE, removed_count |-> removed_count]), wire)
    ELSE LET r == delete_shopping_list_item(wire, list_id, Head(items).id, outs)
         IN  DeleteEach(r.wire, list_id, Tail(items), Tail(outs),
                        IF IsError(r.ret) THEN removed_count ELSE removed_count + 1)

\* lines 409-440
clear_checked_items(wire, list_id, outs) ==
    LET shopping_list == get_shopping_list(wire, list_id, outs)
    IN  IF shopping_list.ret.kind # "value" THEN shopping_list
        ELSE LET checked_items ==
                     SelectSeq(shopping_list.ret.value.list_items,
                               LAMBDA it : it.checked)
             IN  DeleteEach(shopping_list.wire, list_id, checked_items,
                            Tail(outs), 0)

\* lines 299-306
_is_uuid(v) == v = "0a1b2c3d-0000-4000-8000-000000000001"

\* lines 266-297: a slug is first resolved to the recipe's id
client_create_meal_plan_entry(wire, date, recipe_id, entry_type, outs) ==
    LET recipe == IF _is_uuid(recipe_id) THEN Done(Value([id |-> recipe_id]), wire)
                  ELSE get_recipe(wire, recipe_id, outs)
        rest == IF _is_uuid(recipe_id) THEN outs ELSE Tail(outs)
    IN  IF recipe.ret.kind # "value" THEN recipe
        ELSE Validated(Request(recipe.wire, "POST", <<"/households/mealplans">>,
                               [date |-> date, entryType |-> entry_type,
                                recipeId |-> recipe.ret.value.id],
                               rest[1]))

\* lines 617-655: upload_recipe_image has its own try block and except clauses
upload_recipe_image(wire, slug, outs) ==
    LET out == outs[1]
        endpoint == <<"/recipes", slug, "image">>
        ret == IF out.exc # NULL
               THEN api_error(<<"Image upload failed", out.exc>>)
               ELSE IF out.status = 401
               THEN auth_error(<<"Invalid or expired Mealie API token">>)
               ELSE IF out.status = 404 THEN not_found("Recipe", slug)
               ELSE IF ~Is2xx(out.status) THEN api_error(<<"HTTP", out.status>>)
               ELSE IF out.body = "not_json" \/ out.status = 204
               THEN api_error(<<"Image upload failed", "JSONDecodeError">>)
               ELSE Value([image |-> slug])
    IN  Done(ret, Sent(wire, "PUT", endpoint, NULL, out))

\* model_dump() of an ErrorResponse: the dict a tool returns
model_dump(e) == [e EXCEPT !.kind = "dict"]

MealType == {"breakfast", "lunch", "dinner", "side", "snack"}

\* tools/shopping.py lines 126-139: the loop over the items to add
RECURSIVE AddEach(_, _, _, _, _, _)
AddEach(wire, list_id, items, outs, added, failed) ==
    IF items = <<>>
    THEN Done([kind |-> "dict", error |-> FALSE, list_id |-> list_id,
               added_count |-> Len(added), added_items |-> added,
               failed_items |-> failed], wire)
    ELSE LET r == add_shopping_list_item(wire, list_id, Head(items), outs)
         IN  IF r.ret.kind = "raised" THEN r
             ELSE IF IsError(r.ret)
             THEN AddEach(r.wire, list_id, Tail(items), Tail(outs), added,
                          Append(failed, [item |-> Head(items),
                                          error |-> r.ret.message]))
             ELSE AddEach(r.wire, list_id, Tail(items), Tail(outs),
                          Append(added, [id |-> r.ret.value.id,
                                         text |-> Head(items)]),
                          failed)

\* tools/shopping.py lines 104-139: the list is looked up, the items added
add_items_to_list(wire, items, list_id, outs) ==
    LET lists == IF list_id = NULL THEN get_shopping_lists(wire, outs)
                 ELSE Done(Value(<<[id |-> list_id]>>), wire)
        rest == IF list_id = NULL THEN Tail(outs) ELSE outs
    IN  IF lists.ret.kind = "raised" THEN lists
        ELSE IF IsError(lists.ret) THEN Done(model_dump(lists.ret), lists.wire)
        ELSE IF lists.ret.value = <<>>
        THEN Done([kind |-> "dict", error |-> TRUE, code |-> "NOT_FOUND",
                   message |-> <<"No shopping lists found">>], lists.wire)
        ELSE AddEach(lists.wire, lists.ret.value[1].id, items, rest, <<>>, <<>>)

\* tools/shopping.py lines 91-139
add_to_shopping_list_unvalidated(wire, items, list_id, outs) ==
    add_items_to_list(wire, items, list_id, outs)

add_to_shopping_list(wire, items, list_id, outs) ==
    IF items = <<>>
    THEN Done([kind |-> "dict", error |-> TRUE, code |-> "VALIDATION_ERROR",
               message |-> <<"No items provided to add">>], wire)
    ELSE add_items_to_list(wire, items, list_id, outs)

\* tools/mealplans.py lines 69-90: the entry is created and reported
report_created_entry(wire, date, recipe_slug, meal_type, outs) ==
    LET r == client_create_meal_plan_entry(wire, date, recipe_slug, meal_type, outs)
    IN  IF r.ret.kind = "raised" THEN r
        ELSE IF IsError(r.ret) THEN Done(model_dump(r.ret), r.wire)
        ELSE Done([kind |-> "dict", error |-> FALSE, id |-> r.ret.value.id,
                   date |-> r.ret.value.date,
                   meal_type |-> r.ret.value.entry_type,
                   recipe_id |-> r.ret.value.recipe_id], r.wire)

\* tools/mealplans.py lines 47-90
create_meal_plan_entry(wire, date, recipe_slug, meal_type, outs) ==
    IF meal_type \notin MealType
    THEN Done([kind |-> "dict", error |-> TRUE, code |-> "VALIDATION_ERROR",
               message |-> <<"Invalid meal_type", meal_type>>], wire)
    ELSE report_created_entry(wire, date, recipe_slug, meal_type, outs)

\* the calls explored: client methods called directly, and the two tools
Invocation(api, name, args) == [api |-> api, name |-> name, args |-> args]

ClientCalls ==
    { Invocation("client", "get_group_id", <<>>),
      Invocation("client", "search_recipes", <<>>),
      Invocation("client", "get_recipe", <<"recipe-1">>),
      Invocation("client", "delete_meal_plan_entry", <<"entry-1">>),
      Invocation("client", "get_shopping_list", <<"list-1">>),
      Invocation("client", "add_shopping_list_item", <<"list-1", "flour">>),
      Invocation("client", "clear_checked_items", <<"list-1">>),
      Invocation("client", "create_meal_plan_entry",
                 <<"2026-01-05", "recipe-1", "lunch">>),
      Invocation("client", "upload_recipe_image", <<"recipe-1">>) }

ToolCalls ==
    { Invocation("tool", "add_to_shopping_list", <<items, list_id>>) :
        items \in SeqsUpTo({"flour"}, MaxItems),
        list_id \in {NULL, "list-1"} }
    \cup
    { Invocation("tool", "create_meal_plan_entry",
                 <<"2026-01-05", recipe, meal_type>>) :
        recipe \in {"recipe-1", "0a1b2c3d-0000-4000-8000-000000000001"},
        meal_type \in MealType \cup {"invalid", "Dinner", ""} }

\* the number of requests a call sends when none of them fails
Requests(call, state) ==
    CASE call.name = "add_to_shopping_list" ->
             Len(call.args[1]) + (IF call.args[2] = NULL THEN 1 ELSE 0)
      [] call.name = "clear_checked_items" ->
             1 + Len(SelectSeq(state.items, LAMBDA it : it.checked))
      [] call.name = "create_meal_plan_entry" -> 2
      [] OTHER -> 1

Dispatch(call, wire, outs) ==
    LET a == call.args
    IN  CASE call.name = "get_group_id" -> get_group_id(wire, outs)
          [] call.name = "search_recipes" -> search_recipes(wire, outs)
          [] call.name = "get_recipe" -> get_recipe(wire, a[1], outs)
          [] call.name = "delete_meal_plan_entry" ->
                 delete_meal_plan_entry(wire, a[1], outs)
          [] call.name = "get_shopping_list" -> get_shopping_list(wire, a[1], outs)
          [] call.name = "add_shopping_list_item" ->
                 add_shopping_list_item(wire, a[1], a[2], outs)
          [] call.name = "clear_checked_items" ->
                 clear_checked_items(wire, a[1], outs)
          [] call.name = "upload_recipe_image" ->
                 upload_recipe_image(wire, a[1], outs)
          [] call.name = "create_meal_plan_entry" /\ call.api = "client" ->
                 client_create_meal_plan_entry(wire, a[1], a[2], a[3], outs)
          [] call.name = "create_meal_plan_entry" /\ call.api = "tool" ->
                 create_meal_plan_entry(wire, a[1], a[2], a[3], outs)
          [] call.name = "add_to_shopping_list" ->
                 add_to_shopping_list(wire, a[1], a[2], outs)

InitMealie ==
    /\ pc = "mealie_ready"
    /\ backend \in BackendPool
    /\ backend_before = backend
    /\ http_log = <<>>
    /\ invoked = Invocation("none", "none", <<>>)
    /\ call_result = None
    /\ IdleExceptMealie

\* one call, from its start to its return, with the server's outcome for
\* each request it sends
Invoke(calls_offered) ==
    /\ pc = "mealie_ready"
    /\ \E call \in calls_offered :
       \E outs \in [1..Requests(call, backend) -> Outcomes] :
          LET r == Dispatch(call, Wire(<<>>, backend), outs)
          IN  /\ invoked' = call
              /\ call_result' = r.ret
              /\ http_log' = r.wire.log
              /\ backend' = r.wire.backend
    /\ backend_before' = backend
    /\ pc' = "mealie_returned"
    /\ UNCHANGED exceptMealie

ClientCall == Invoke(ClientCalls)

ToolCall == Invoke(ToolCalls)

NextMealie == ClientCall \/ ToolCall

SpecMealie == InitMealie /\ [][NextMealie]_vars

(***************************************************************************)
(* bulk_import (scripts/bulk_import_hellofresh/importer.py) with the       *)
(* Mealie server as the environment.  A match is the dict loaded from the  *)
(* matches file; a key the dict does not have is "absent".  An imported    *)
(* or failed entry {**match, ...} is the match with the added keys beside  *)
(* it.  The history import_log holds, in order, the import requests sent   *)
(* and the delays awaited.                                                 *)
(***************************************************************************)
ABSENT == "absent"

Match(scanned, matched_url, matched_name, confidence) ==
    [scanned |-> scanned, matched_url |-> matched_url,
     matched_name |-> matched_name, confidence |-> confidence]

MatchPool ==
    { Match("t1", "u1", "n1", "high"),
      Match("t2", "u2", "n2", "medium"),
      Match("t3", "u3", ABSENT, "low"),
      Match("t4", NULL, NULL, NULL),
      Match("t5", "", NULL, "high"),
      Match("t6", "u6", "n6", "certain"),
      Match("t7", "u7", NULL, "high") }

MinConfidences == {"high", "medium", "low", "strict"}

\* m.get(key): None for a key the dict does not have
Get(v) == IF v = ABSENT THEN NULL ELSE v

confidence_levels == [high |-> 3, medium |-> 2, low |-> 1]

\* confidence_levels.get(c, default)
Level(c, default) ==
    IF c \in DOMAIN confidence_levels THEN confidence_levels[c] ELSE default

min_level(min_conf) == Level(min_conf, 2)

\* the condition of the list comprehension of lines 76-80
Importable(m, min_conf) ==
    HasUrl(m) /\ Level(Get(m.confidence), 0) >= min_level(min_conf)

filter_matches_by_confidence(l, min_conf) ==
    SelectSeq(l, LAMBDA m : Importable(m, min_conf))

skipped_no_match(l) == SelectSeq(l, LAMBDA m : ~HasUrl(m))

skipped_low_confidence(l, min_conf) ==
    SelectSeq(l, LAMBDA m :
        HasUrl(m) /\ Level(Get(m.confidence), 0) < min_level(min_conf))

\* the slug the server gives the recipe it scraped from a URL
Slug(url) == <<"slug", url>>

\* client.py lines 496-521
import_recipe_from_url(wire, url, include_tags, outs) ==
    LET r == Request(wire, "POST", <<"/recipes/create/url">>,
                     [url |-> url, includeTags |-> include_tags], outs[1])
    IN  IF IsError(r.ret) THEN r
        ELSE IF "shape" \in DOMAIN r.ret /\ r.ret.shape = "ok"
        THEN Done(Value(Slug(url)), r.wire)
        ELSE Done(api_error(<<"Unexpected response format from URL import">>),
                  r.wire)

\* importer.py lines 19-48
import_recipe(wire, url, include_tags, outs) ==
    LET r == import_recipe_from_url(wire, url, include_tags, outs)
    IN  IF IsError(r.ret)
        THEN [success |-> FALSE, url |-> url, error |-> r.ret.message,
              code |-> r.ret.code]
        ELSE [success |-> TRUE, url |-> url, slug |-> r.ret.value]

ImportRequest(url, out) == [kind |-> "request", url |-> url, outcome |-> out]
Delay == [kind |-> "sleep"]

InitImport ==
    /\ match_list \in DistinctSeqsUpTo(MatchPool, MaxImport)
    /\ min_confidence \in MinConfidences
    /\ dry_run \in BOOLEAN
    /\ pc = "import_start"
    /\ to_import = <<>>
    /\ results = NULL
    /\ client = "none"
    /\ import_i = 0
    /\ import_log = <<>>
    /\ bulk_returned = NULL
    /\ bulk_raised = NULL
    /\ sleeps = 0
    /\ IdleExceptImport

\* lines 72-107: the lists are split, a dry run returns, otherwise the
\* client is created
BulkImportEnter_dry_run_creates_client ==
    /\ pc = "import_start"
    /\ to_import' = filter_matches_by_confidence(match_list, min_confidence)
    /\ results' =
          [imported |-> <<>>, failed |-> <<>>,
           skipped_no_match |-> skipped_no_match(match_list),
           skipped_low_confidence |->
               skipped_low_confidence(match_list, min_confidence),
           dry_run |-> dry_run,
           would_import |-> IF dry_run THEN to_import' ELSE ABSENT]
    /\ client' = "open"
    /\ IF dry_run
       THEN /\ bulk_returned' = results'
            /\ pc' = "import_done"
       ELSE /\ pc' = "import_loop"
            /\ UNCHANGED bulk_returned
    /\ UNCHANGED <<exceptImport, match_list, min_confidence, dry_run, import_i,
                   import_log, bulk_raised, sleeps>>

BulkImportEnter ==
    /\ pc = "import_start"
    /\ to_import' = filter_matches_by_confidence(match_list, min_confidence)
    /\ results' =
          [imported |-> <<>>, failed |-> <<>>,
           skipped_no_match |-> skipped_no_match(match_list),
           skipped_low_confidence |->
               skipped_low_confidence(match_list, min_confidence),
           dry_run |-> dry_run,
           would_import |-> IF dry_run THEN to_import' ELSE ABSENT]
    /\ IF dry_run
       THEN /\ bulk_returned' = results'
            /\ pc' = "import_done"
            /\ UNCHANGED client
       ELSE /\ client' = "open"
            /\ pc' = "import_loop"
            /\ UNCHANGED bulk_returned
    /\ UNCHANGED <<exceptImport, match_list, min_confidence, dry_run, import_i,
                   import_log, bulk_raised, sleeps>>

\* lines 111-143: one iteration of the import loop.  The progress line
\* slices match.get('matched_name', url), which raises TypeError when the
\* key is there with the value None; the finally clause closes the client
ImportOne ==
    /\ pc = "import_loop"
    /\ import_i < Len(to_import)
    /\ LET match == to_import[import_i + 1]
           url == match.matched_url
       IN  IF match.matched_name = NULL
           THEN /\ client' = "closed"
                /\ bulk_raised' = "TypeError"
                /\ pc' = "import_raised"
                /\ UNCHANGED <<results, import_i, import_log, sleeps>>
           ELSE /\ \E out \in Outcomes :
                      LET imported == import_recipe(Wire(<<>>, backend), url,
                                                    FALSE, <<out>>)
                          sent == Append(import_log, ImportRequest(url, out))
                          last == import_i >= Len(to_import) - 1
                      IN  /\ results' =
                                IF imported.success
                                THEN [results EXCEPT !.imported =
                                        Append(@, [match |-> match,
                                                   imported_slug |-> imported.slug])]
                                ELSE [results EXCEPT !.failed =
                                        Append(@, [match |-> match,
                                                   error |-> imported.error,
                                                   error_code |-> imported.code])]
                          /\ import_log' = IF last THEN sent ELSE Append(sent, Delay)
                          /\ sleeps' = IF last THEN sleeps ELSE sleeps + 1
                /\ import_i' = import_i + 1
                /\ UNCHANGED <<client, bulk_raised, pc>>
    /\ UNCHANGED <<exceptImport, match_list, min_confidence, dry_run,
                   to_import, bulk_returned>>

\* lines 142-145: the loop is over, the client is closed, results returned
BulkImportReturn ==
    /\ pc = "import_loop"
    /\ import_i >= Len(to_import)
    /\ client' = "closed"
    /\ bulk_returned' = results
    /\ pc' = "import_done"
    /\ UNCHANGED <<exceptImport, match_list, min_confidence, dry_run,
                   to_import, results, import_i, import_log, bulk_raised,
                   sleeps>>

NextImport == BulkImportEnter \/ ImportOne \/ BulkImportReturn

SpecImport == InitImport /\ [][NextImport]_vars

(***************************************************************************)
(* Properties.                                                             *)
(***************************************************************************)
UrlSet(l) == {l[n].url : n \in 1..Len(l)}

NoDupUrls(l) == \A a, b \in 1..Len(l) : a # b => l[a].url # l[b].url

\* the prefilter finds no candidate for title t in the catalog of the run
NoCandidates(t) ==
    \A o \in PrefilterOrders(t, sitemap_recipes) :
        prefilter_candidates(t, sitemap_recipes, MAX_CANDIDATES_PER_TITLE, o) = <<>>

\* URLs of the candidates the prefilter finds for title t
PrefilterUrls(t) ==
    UNION {UrlSet(prefilter_candidates(t, sitemap_recipes,
                                       MAX_CANDIDATES_PER_TITLE, o)) :
              o \in PrefilterOrders(t, sitemap_recipes)}

\* C1: the returned list holds exactly one result per input title: as many
\* results as titles, and for every input position exactly one result
\* carrying it.
C1_OneResultPerTitle ==
    pc = "done" =>
        /\ Len(result) = total
        /\ \A n \in 1..total :
              Cardinality({m \in 1..Len(result) : result[m].index = n}) = 1

\* C2: a chunk whose collaborator call raises does not abort the run; each
\* of its titles gets a null result carrying the exception text, and every
\* object returned for another chunk is in the results under the original
\* index of the title it names.
C2_ChunkFailureIsolation ==
    \A c \in 1..Len(calls) :
        calls[c].outcome = "raised" =>
            /\ pc # "aborted"
            /\ \A n \in 1..Len(calls[c].indices) :
                  LocalResult(calls[c].indices[n], calls[c].titles[n],
                              calls[c].error) \in Range(all_matches)
            /\ \A d \in 1..Len(calls) :
                  (d # c /\ calls[d].outcome = "returned") =>
                      \A n \in 1..Len(calls[d].returned) :
                          LET o == calls[d].returned[n]
                          IN  o.named \in 1..Len(calls[d].indices) =>
                                [o EXCEPT !.index =
                                    calls[d].indices[o.named] + 1]
                                  \in Range(all_matches)

\* C3: after an unparseable reply every title of the chunk has a failed
\* result (null match, null confidence, an error text) in the results.
\* Stated for the prefilter path, whose chunk loop has the recovery code.
C3_MalformedResponseRecovery ==
    \A c \in 1..Len(calls) :
        (LargePath /\ calls[c].text = "garbage") =>
            /\ pc # "aborted"
            /\ \A n \in 1..Len(calls[c].indices) :
                  \E m \in 1..Len(all_matches) :
                      /\ all_matches[m].index = calls[c].indices[n] + 1
                      /\ all_matches[m].scanned = calls[c].titles[n]
                      /\ all_matches[m].matched_url = NULL
                      /\ all_matches[m].confidence = NULL
                      /\ all_matches[m].error # NULL

\* C4: the returned list is sorted by strictly increasing index and its
\* index values are exactly the input positions, each once.
C4_OrderPreservation ==
    pc = "done" =>
        /\ \A n \in 1..(Len(result) - 1) : result[n].index < result[n + 1].index
        /\ {result[n].index : n \in 1..Len(result)} = 1..total

\* C5: in every returned result confidence is null exactly when matched_url
\* is null.  Stated for the prefilter path, which builds local results.
C5_NullityCoupling ==
    (LargePath /\ pc = "done") =>
        \A n \in 1..Len(result) :
            (result[n].confidence = NULL) <=> (result[n].matched_url = NULL)

C7_IndexReattachment ==
    \A n \in 1..Len(all_matches) :
        LET r == all_matches[n]
        IN  (LargePath /\ r.chunk > 0 /\ r.isdict
             /\ r.named \in 1..Len(calls[r.chunk].indices)) =>
                r.index = calls[r.chunk].indices[r.named] + 1

\* C8: no object whose chunk-local index is outside 1..(titles in the chunk)
\* is in the results, and a chunk contributes no more results than it has
\* titles.  Stated for the prefilter path, whose chunk loop has the range test.
C8_OutOfRangeDropped ==
    /\ \A n \in 1..Len(all_matches) :
          LET r == all_matches[n]
          IN  (LargePath /\ r.chunk > 0 /\ r.isdict) =>
                 r.named \in 1..Len(calls[r.chunk].indices)
    /\ \A c \in 1..Len(calls) :
          LargePath =>
          Cardinality({n \in 1..Len(all_matches) : all_matches[n].chunk = c})
             <= Len(calls[c].indices)

PosOf(e) == CHOOSE n \in 1..Len(sitemap_recipes.entries) :
                sitemap_recipes.entries[n] = e

QueryScore(e) == score_candidate(extract_keywords(scanned_titles[1]), e.name)

AbovePositions ==
    {n \in 1..Len(sitemap_recipes.entries) :
        AboveThreshold(QueryScore(sitemap_recipes.entries[n]))}

ReturnedPositions == {PosOf(candidates[n]) : n \in 1..Len(candidates)}

\* at most max_candidates entries, each sharing a keyword with the query, in
\* non-increasing score order, none scoring less than an omitted entry
RankedTopK ==
    /\ Len(candidates) <= max_candidates
    /\ \A n \in 1..Len(candidates) :
          /\ candidates[n] \in Range(sitemap_recipes.entries)
          /\ extract_keywords(scanned_titles[1])
                \cap extract_keywords(candidates[n].name) # {}
    /\ \A n \in 1..(Len(candidates) - 1) :
          ~FracGT(QueryScore(candidates[n + 1]), QueryScore(candidates[n]))
    /\ \A p \in AbovePositions \ ReturnedPositions, r \in ReturnedPositions :
          ~FracGT(QueryScore(sitemap_recipes.entries[p]),
                  QueryScore(sitemap_recipes.entries[r]))

\* entries of equal score are returned, and kept at the cut-off, in
\* ascending catalog position
TiesInCatalogOrder ==
    /\ \A n, m \in 1..Len(candidates) :
          (n < m /\ FracEQ(QueryScore(candidates[n]), QueryScore(candidates[m])))
             => PosOf(candidates[n]) < PosOf(candidates[m])
    /\ \A p \in AbovePositions \ ReturnedPositions, r \in ReturnedPositions :
          FracEQ(QueryScore(sitemap_recipes.entries[p]),
                 QueryScore(sitemap_recipes.entries[r])) => r < p

\* C10 as stated: the prefilter returns a ranked top-K and breaks ties by
\* catalog order.
C10_PrefilterRanking ==
    pc = "prefilter_done" => (RankedTopK /\ TiesInCatalogOrder)

\* C10 amended: the prefilter returns at most max_candidates entries, each
\* sharing a keyword with the query, in non-increasing score order, and no
\* omitted above-threshold entry scores higher than a returned one.
C10_PrefilterRankingAnyTieOrder ==
    pc = "prefilter_done" => RankedTopK

C10_Witness ==
    /\ pc = "prefilter_done"
    /\ Len(candidates) = max_candidates
    /\ \E p \in AbovePositions \ ReturnedPositions, r \in ReturnedPositions :
          /\ FracEQ(QueryScore(sitemap_recipes.entries[p]),
                    QueryScore(sitemap_recipes.entries[r]))
          /\ p < r
    /\ \E n \in 1..(Len(candidates) - 1) :
          FracGT(QueryScore(candidates[n]), QueryScore(candidates[n + 1]))

\* C11: prefilter_candidates excludes a candidate whose score is exactly
\* 1/10 and retains one whose score is above it; no returned candidate has
\* a score of 1/10 or less.
C11_ThresholdBoundary ==
    pc = "prefilter_done" =>
        /\ \A n \in 1..Len(candidates) : AboveThreshold(QueryScore(candidates[n]))
        /\ \A n \in 1..Len(sitemap_recipes.entries) :
              AboveThreshold(QueryScore(sitemap_recipes.entries[n]))
                 => sitemap_recipes.entries[n] \in Range(candidates)

DoubleOne == DoubleOfRatio(1, 1)

\* the double x is within a relative distance of 2^-51 of n / d (n, d > 0)
DoubleNear(x, n, d) ==
    LET a == BigMul(x.m, BigOfInt(d))
        b == BigShl(BigOfInt(n), 0 - x.e)
        diff == IF BigGE(a, b) THEN BigSub(a, b) ELSE BigSub(b, a)
    IN  x.m # <<>> /\ x.e < 0 /\ BigGE(b, BigShl(diff, 51))

\* C12: score_candidate returns 0 when the query set or the candidate's
\* keyword set is empty or the two are disjoint, and otherwise
\* 2|Q n C| / (|Q| + |C|) (the float nearest the value the float arithmetic
\* reaches, within 2^-51 of it); the result lies in [0, 1], is 1 exactly
\* when the non-empty sets are equal, and is strictly between 0 and 1 for a
\* partial overlap (4/7 for {ch1cken, stir, fry} against {chicken, stir,
\* fry, vegetables}).
C12_ScorerContract ==
    pc = "score_done" =>
        LET Q == scanned_keywords
            C == extract_keywords(candidate_name)
            m == Cardinality(Q \cap C)
        IN  /\ (Q = {} \/ C = {} \/ m = 0) =>
                  (FracEQ(score, Zero) /\ score_float = DoubleZero)
            /\ (Q # {} /\ C # {} /\ m > 0) =>
                  /\ FracEQ(score, <<2 * m, Cardinality(Q) + Cardinality(C)>>)
                  /\ DoubleNear(score_float, 2 * m, Cardinality(Q) + Cardinality(C))
            /\ score[2] > 0 /\ 0 <= score[1] /\ score[1] <= score[2]
            /\ ~DoubleGT(score_float, DoubleOne)
            /\ FracEQ(score, <<1, 1>>) <=> (Q = C /\ Q # {})
            /\ (score_float = DoubleOne) <=> (Q = C /\ Q # {})
            /\ (m > 0 /\ Q # C) =>
                  /\ FracGT(score, Zero) /\ FracGT(<<1, 1>>, score)
                  /\ DoubleGT(score_float, DoubleZero)
                  /\ DoubleGT(DoubleOne, score_float)
            /\ (Q = {"ch1cken", "stir", "fry"}
                 /\ C = {"chicken", "stir", "fry", "vegetables"}) =>
                  FracEQ(score, <<4, 7>>)

C12_Witness ==
    /\ pc = "score_done"
    /\ scanned_keywords = {"ch1cken", "stir", "fry"}
    /\ candidate_name = <<"chicken", "stir", "fry", "vegetables">>
    /\ FracEQ(score, <<4, 7>>)
    /\ DoubleNear(score_float, 4, 7)

\* the catalog object with identity id
ObjectOf(id) == CHOOSE cat \in CachePool : cat.id = id

\* the last call before call n in which an index was built afresh
LastFreshBuild(n) ==
    LET fresh == {m \in 1..(n - 1) : index_calls[m].built /\ ~index_calls[m].hit}
    IN  IF fresh = {} THEN 0 ELSE CHOOSE m \in fresh : \A q \in fresh : q <= m

\* C13: in every sequence of direct calls the index that answers a call is
\* the index of the catalog passed to that call; a call is served from the
\* cache only if the cached index was built for the very same object; every
\* position the prefilter dereferences is a position of the catalog passed
\* in (no IndexError); the cached index is the index of the object the
\* cache names.
C13_IndexCacheValidity ==
    /\ raised # "IndexError"
    /\ \A n \in 1..Len(index_calls) :
          LET c == index_calls[n]
          IN  c.built =>
                /\ c.returned = IndexOf(ObjectOf(c.id))
                /\ c.indices \subseteq 0..(CatalogLen(ObjectOf(c.id)) - 1)
                /\ c.hit => /\ LastFreshBuild(n) # 0
                            /\ index_calls[LastFreshBuild(n)].id = c.id
    /\ _keyword_index.present =>
          \E cat \in CachePool :
              /\ cat.id = _indexed_recipes
              /\ _keyword_index.map = IndexOf(cat)

C13_Witness ==
    /\ Len(index_calls) = 3
    /\ index_calls[1].id = 1 /\ index_calls[1].built /\ ~index_calls[1].hit
    /\ index_calls[2].id = 2 /\ index_calls[2].built /\ ~index_calls[2].hit
    /\ index_calls[3].id = 2 /\ index_calls[3].hit
    /\ index_calls[3].fn = "prefilter" /\ index_calls[3].indices # {}
    /\ pc = "prefilter_done"

\* the names of a catalog, position by position
NamesOf(cat) == [n \in 1..Len(cat.entries) |-> cat.entries[n].name]

\* C14: two build_keyword_index calls on the same catalog, the second
\* served from the cache or built afresh, return indexes with which
\* prefilter_candidates returns the same list for every query (for each
\* iteration order of the candidate set); catalogs with the same names at
\* the same positions get the same index.
C14_IndexingIdempotent ==
    \A n, m \in 1..Len(index_calls) :
        LET a == index_calls[n]
            b == index_calls[m]
        IN  (n < m /\ a.built /\ b.built) =>
              /\ a.id = b.id =>
                    /\ a.returned = b.returned
                    /\ \A t \in CacheTitles :
                          \A order \in Orders(CandidateIndices(extract_keywords(t),
                                                              a.returned)) :
                              prefilter_with(t, ObjectOf(a.id), a.returned,
                                             MAX_CANDIDATES_PER_TITLE, order)
                                = prefilter_with(t, ObjectOf(b.id), b.returned,
                                                 MAX_CANDIDATES_PER_TITLE, order)
              /\ NamesOf(ObjectOf(a.id)) = NamesOf(ObjectOf(b.id)) =>
                    a.returned = b.returned

C14_Witness ==
    /\ Len(index_calls) = 3
    /\ index_calls[1].id = 1 /\ index_calls[1].built /\ ~index_calls[1].hit
    /\ index_calls[2].id = 3 /\ index_calls[2].built /\ ~index_calls[2].hit
    /\ index_calls[3].id = 1 /\ index_calls[3].built /\ ~index_calls[3].hit
    /\ index_calls[3].fn = "build"
    /\ pc = "build_done"


\* the command has passed the catalog to match_all_titles
MatchingAttempted == pc \notin {"cli_fetch", "cli_loaded", "cli_aborted"}

\* C15: a failure to fetch the catalog is fatal to the run -- matching is not
\* attempted against a missing or partially fetched catalog -- and no error
\* arising in per-title or per-chunk processing aborts the run
C15_ErrorPropagationPolicy ==
    /\ fetch_errors # <<>> => ~MatchingAttempted
    /\ pc # "aborted"

\* the lower-cased names of a catalog's entries
SameName(a, b) == name_lower(a) = name_lower(b)

\* C20: the catalog handed to the matcher has no two entries with the same
\* name, compared case-insensitively, and no two entries with the same URL,
\* whichever region selector was used; of the entries fetched with one name
\* the first is kept, and the kept entries are in the order fetched
C20_CatalogUniqueness ==
    MatchingAttempted =>
        LET handed == sitemap_recipes.entries
            fetched == IF country = "all" THEN all_recipes.entries
                       ELSE recipes.entries
        IN  /\ \A a, b \in 1..Len(handed) :
                  a # b => /\ ~SameName(handed[a], handed[b])
                           /\ handed[a].url # handed[b].url
            /\ \E at \in [1..Len(handed) -> 1..Len(fetched)] :
                  /\ \A a, b \in 1..Len(handed) : a < b => at[a] < at[b]
                  /\ \A a \in 1..Len(handed) :
                        /\ handed[a] = fetched[at[a]]
                        /\ \A m \in 1..(at[a] - 1) :
                              ~SameName(fetched[m], fetched[at[a]])


\* what the chunk loop has appended to all_matches for a call that is over
Recorded(call) ==
    IF call.outcome = "returned"
    THEN IF LargePath THEN Reattach(call, call.returned) ELSE call.returned
    ELSE IF LargePath THEN FailedEntries(call, call.error) ELSE <<>>

\* the titles of chunk number c, by their positions in the scanned list
ChunkIndices(c) ==
    IF LargePath
    THEN LET batch == Slice(title_candidates, (c - 1) * batch_size, c * batch_size)
         IN  [n \in 1..Len(batch) |-> batch[n].idx]
    ELSE LET batch == Slice(scanned_titles, (c - 1) * batch_size, c * batch_size)
         IN  [n \in 1..Len(batch) |-> (c - 1) * batch_size + n - 1]

\* C16: within one match_all_titles run at most one collaborator call is in
\* flight at any time, chunks are issued in ascending chunk order, and the
\* call for chunk k+1 is issued only after chunk k has been fully resolved
\* (its results or its failure entries recorded)
C16_SequentialChunks ==
    LET over == SelectSeq(calls, LAMBDA call : call.outcome # "pending")
        recorded == Flatten([c \in 1..Len(over) |-> Recorded(over[c])])
    IN  /\ Cardinality({c \in 1..Len(calls) : calls[c].outcome = "pending"}) <= 1
        /\ \A c \in 1..Len(calls) : calls[c].indices = ChunkIndices(c)
        /\ \A c \in 1..(Len(calls) - 1) :
              /\ calls[c].outcome \in {"returned", "raised"}
              /\ calls[c].outcome = "raised" => LargePath
        /\ Len(recorded) <= Len(all_matches)
        /\ SubSeq(all_matches, Len(all_matches) - Len(recorded) + 1,
                  Len(all_matches)) = recorded

\* the first chunk has failed, its failure entries are recorded, and the
\* call for the second chunk is in flight
C16_Witness ==
    /\ Len(calls) = 2
    /\ calls[1].outcome = "raised"
    /\ calls[2].outcome = "pending"
    /\ \E n \in 1..Len(all_matches) : all_matches[n].error \in Errors


\* C17: for any result list, summarize_matches reports total = number of
\* results, matched = number of results with a non-null matched_url,
\* unmatched = total - matched, and a histogram over {high, medium, low}
\* whose three counts sum to matched: each matched result is counted under
\* exactly one confidence label and unmatched results under none
C17_Aggregation ==
    pc \in {"summary_done", "cli_done"} =>
        /\ summary.total = Len(summarized)
        /\ summary.matched = Count(summarized, LAMBDA m : m.matched_url # NULL)
        /\ summary.unmatched = summary.total - summary.matched
        /\ summary.by_confidence["high"] + summary.by_confidence["medium"]
              + summary.by_confidence["low"] = summary.matched
        /\ \A c \in {"high", "medium", "low"} :
              summary.by_confidence[c] =
                 Count(summarized, LAMBDA m : m.matched_url # NULL /\ m.confidence = c)


\* an exchange that failed, and the error code claimed for it
FailedExchange(x) == x.outcome.exc # NULL \/ ~Is2xx(x.outcome.status)

ClaimedCode(x) ==
    IF x.outcome.exc # NULL THEN "API_ERROR"
    ELSE IF x.outcome.status = 401 THEN "AUTH_ERROR"
    ELSE IF x.outcome.status = 404 THEN "NOT_FOUND"
    ELSE "API_ERROR"

\* the call handed back the ErrorResponse claimed for the failed exchange x;
\* a NOT_FOUND names the endpoint or, under the resource's own name, the
\* identifier the caller gave
ReturnsFailure(x) ==
    /\ call_result.kind = "ErrorResponse"
    /\ call_result.code = ClaimedCode(x)
    /\ call_result.code = "NOT_FOUND" =>
          IF call_result.message[1] = "Resource"
          THEN call_result.message[2] = x.endpoint
          ELSE \E k \in 1..Len(invoked.args) :
                  call_result.message[2] = invoked.args[k]
    /\ invoked.name = "get_recipe" /\ call_result.code = "NOT_FOUND" =>
          call_result.message = <<"Recipe", invoked.args[1], "not found">>

ClientReturned == pc = "mealie_returned" /\ invoked.api = "client"

\* C18: every MealieClient request returns its failure as an ErrorResponse
\* value rather than raising: HTTP 401 yields code AUTH_ERROR, HTTP 404 yields
\* code NOT_FOUND naming the specific resource (the recipe slug for
\* get_recipe), and a connection failure, timeout or any other HTTP error
\* status yields code API_ERROR; the 401 and 404 mappings take precedence
\* over the generic status handling
C18_BackendErrorMapping ==
    ClientReturned =>
        \A n \in 1..Len(http_log) :
            FailedExchange(http_log[n]) => ReturnsFailure(http_log[n])

\* C18 as the program has it: the same, except that get_group_id answers
\* None when its request fails, and that clear_checked_items skips an item
\* whose deletion fails and still reports success
C18_BackendErrorMappingOfReportingMethods ==
    ClientReturned /\ invoked.name # "get_group_id" =>
        \A n \in 1..Len(http_log) :
            (/\ FailedExchange(http_log[n])
             /\ (invoked.name = "clear_checked_items" => n = 1))
            => ReturnsFailure(http_log[n])

\* get_recipe was answered 404 and handed back NOT_FOUND naming the slug
C18_Witness ==
    /\ ClientReturned
    /\ invoked.name = "get_recipe"
    /\ Len(http_log) = 1
    /\ http_log[1].outcome.status = 404
    /\ call_result.kind = "ErrorResponse"
    /\ call_result.code = "NOT_FOUND"
    /\ call_result.message[2] = invoked.args[1]

ToolReturned == pc = "mealie_returned" /\ invoked.api = "tool"

\* the tool was called with an argument its validation rejects
InvalidToolCall ==
    \/ invoked.name = "add_to_shopping_list" /\ Len(invoked.args[1]) = 0
    \/ invoked.name = "create_meal_plan_entry" /\ invoked.args[3] \notin MealType

\* C19: add_to_shopping_list called with an empty item list, and
\* create_meal_plan_entry called with a meal_type outside {breakfast, lunch,
\* dinner, side, snack}, return an error with code VALIDATION_ERROR and issue
\* no request to the backend: the backend state is unchanged
C19_ValidationShortCircuit ==
    ToolReturned /\ InvalidToolCall =>
        /\ call_result.kind = "dict"
        /\ call_result.error
        /\ call_result.code = "VALIDATION_ERROR"
        /\ http_log = <<>>
        /\ backend = backend_before

\* add_to_shopping_list has returned from a call without items
C19_Witness ==
    /\ ToolReturned
    /\ invoked.name = "add_to_shopping_list"
    /\ invoked.args[1] = <<>>
    /\ call_result.code = "VALIDATION_ERROR"

\* positions in all_matches of the results recorded for title number n
TitleResults(n) ==
    {m \in 1..Len(all_matches) :
        all_matches[m].isdict /\ all_matches[m].index = n}

\* title number n has been part of a chunk sent to the collaborator
InChunk(n) == \E c \in 1..Len(calls) : (n - 1) \in Range(calls[c].indices)

\* the state of title number n in the state machine of the matcher
TitleState(n) ==
    LET rs == TitleResults(n)
        r == all_matches[CHOOSE m \in rs : TRUE]
        found == \/ InChunk(n)
                 \/ \E k \in 1..Len(title_candidates) :
                       title_candidates[k].idx = n - 1
    IN  IF rs = {} THEN IF found THEN "CandidatesFound" ELSE "Unprocessed"
        ELSE IF Cardinality(rs) > 1 THEN "Several"
        ELSE IF r.error # NULL THEN "Failed"
        ELSE IF r.chunk = 0 THEN "NoCandidates"
        ELSE "Resolved"

TitleSteps ==
    { <<"Unprocessed", "NoCandidates">>, <<"Unprocessed", "CandidatesFound">>,
      <<"CandidatesFound", "Resolved">>, <<"CandidatesFound", "Failed">> }

\* C21: every title starts Unprocessed and moves only along Unprocessed ->
\* {NoCandidates, CandidatesFound -> {Resolved, Failed}}; Resolved and
\* Failed are states of titles that were part of a chunk sent to the
\* collaborator; a recorded result is never changed or replaced; and when
\* the run is over every title is in exactly one terminal state
C21_TitleStateMachine ==
    /\ [](pc = "start" => \A n \in 1..total : TitleState(n) = "Unprocessed")
    /\ [][/\ \A n \in 1..total :
                \/ TitleState(n)' = TitleState(n)
                \/ <<TitleState(n), TitleState(n)'>> \in TitleSteps
          /\ \A n \in 1..total :
                TitleState(n)' \in {"Resolved", "Failed"} => InChunk(n)'
          /\ \A m \in 1..Len(all_matches) :
                m <= Len(all_matches') /\ all_matches'[m] = all_matches[m]
          /\ pc' \in {"done", "aborted"} =>
                \A n \in 1..total :
                   TitleState(n)' \in {"NoCandidates", "Resolved", "Failed"}
         ]_vars

(***************************************************************************)
(* match_all_titles on title lists long enough for a full chunk followed   *)
(* by a smaller last chunk: the sub-lists of four titles, three of which   *)
(* have candidates in the catalogs of the runs.                            *)
(***************************************************************************)
ChunkTitles ==
    << <<"chicken", "teriyaki", "bowl">>,
       <<"xyz", "unmatchable", "noise">>,
       <<"beef", "tacos", "with", "salsa">>,
       <<"chicken", "tacos">> >>

ChunkTitleLists ==
    {SelectSeq(ChunkTitles, LAMBDA t : \E n \in picked : ChunkTitles[n] = t) :
        picked \in SUBSET (1..Len(ChunkTitles))}

InitChunks ==
    /\ scanned_titles \in ChunkTitleLists
    /\ \E run \in {<<Catalog(RichEntries, LargePadding), TRUE>>,
                   <<Catalog(ScenarioEntries, 0), TRUE>>} :
          sitemap_recipes = run[1] /\ use_prefilter = run[2]
    /\ batch_size \in 1..MaxBatch
    /\ max_candidates = MAX_CANDIDATES_PER_TITLE
    /\ pc = "start"
    /\ i = 0
    /\ title_candidates = <<>>
    /\ all_matches = <<>>
    /\ batch_start = 0
    /\ calls = <<>>
    /\ progress = <<>>
    /\ _keyword_index = NoIndex
    /\ _indexed_recipes = 0
    /\ candidates = <<>>
    /\ result = <<>>
    /\ raised = NULL
    /\ deviations = 0
    /\ IdleExceptMatcher

SpecChunks == InitChunks /\ [][Next]_vars

\* 0-based positions of the titles for which the prefilter finds
\* candidates, in input order
WithCandidates ==
    SelectSeq([n \in 1..total |-> n - 1],
              LAMBDA p : ~NoCandidates(scanned_titles[p + 1]))

CeilDiv(a, b) == (a + b - 1) \div b

RunOver == pc \in {"done", "aborted"}

\* the calls made so far are the leading chunks of the titles with
\* candidates, and a run that is over has made all of them
ChunksOf(with) ==
    /\ \A c \in 1..Len(calls) :
          /\ calls[c].indices = Slice(with, (c - 1) * batch_size, c * batch_size)
          /\ Len(calls[c].indices) = batch_size
                \/ (c = Len(calls) /\ Len(calls[c].indices) \in 1..batch_size)
    /\ RunOver =>
          /\ Len(calls) = CeilDiv(Len(with), batch_size)
          /\ \A p \in Range(with) :
                Cardinality({c \in 1..Len(calls) :
                                p \in Range(calls[c].indices)}) = 1

C23_ProgressEvents ==
    LET processed == {c \in 1..Len(calls) : calls[c].outcome # "pending"}
    IN  /\ Len(progress) = Cardinality(processed)
        /\ \A n \in 1..(Len(progress) - 1) : progress[n][1] <= progress[n + 1][1]
        /\ \A n \in 1..Len(progress) : progress[n][1] <= progress[n][2]
        /\ \A n, m \in 1..Len(progress) : progress[n][2] = progress[m][2]
        /\ RunOver =>
              /\ progress # <<>>
              /\ progress[Len(progress)][1] = progress[Len(progress)][2]

\* the import requests sent so far, in order
ImportRequests == SelectSeq(import_log, LAMBDA ev : ev.kind = "request")

\* C24: between any two consecutive external calls of a run (collaborator
\* calls of match_all_titles, import requests of bulk_import) a delay is
\* awaited, and none after the last call: a run that has issued k calls
\* has awaited at least k - 1 delays, in bulk_import every request but the
\* last is directly followed by a delay, and the last by none
C24_RateLimiting ==
    /\ Len(calls) <= sleeps + 1
    /\ Len(ImportRequests) <= sleeps + 1
    /\ \A n \in 1..(Len(import_log) - 1) :
          import_log[n].kind = "request" <=> import_log[n + 1].kind = "sleep"
    /\ RunOver => sleeps <= Len(calls) - 1 \/ sleeps = 0
    /\ pc \in {"import_done", "import_raised"} =>
          /\ sleeps <= Len(ImportRequests) - 1 \/ sleeps = 0
          /\ import_log # <<>> => import_log[Len(import_log)].kind = "request"

\* C25: during a match_all_titles run, once the keyword index has been
\* built, no step (prefilter call, chunk pooling, index re-attachment,
\* failure handling) changes the catalog, a catalog entry or the keyword
\* index: the index stays the index of the catalog, key set and position
\* sets alike, and a prefilter call for a title already prefiltered
\* returns the candidates recorded for it on the first call
C25_ReadOnlySharedState ==
    /\ [][_keyword_index.present =>
             /\ sitemap_recipes' = sitemap_recipes
             /\ _keyword_index' = _keyword_index
             /\ _indexed_recipes' = _indexed_recipes]_vars
    /\ [](_keyword_index.present =>
             /\ _indexed_recipes = sitemap_recipes.id
             /\ _keyword_index.map = IndexOf(sitemap_recipes)
             /\ \A k \in 1..Len(title_candidates) :
                   \E order \in PrefilterOrders(title_candidates[k].title,
                                                sitemap_recipes) :
                       prefilter_candidates(title_candidates[k].title,
                                            sitemap_recipes, max_candidates,
                                            order)
                          = title_candidates[k].candidates)

\* a run on the prefilter path that is over: two titles were prefiltered
\* against the index, candidates of a chunk were pooled, one chunk failed
\* and the reply for another was re-attached
C25_Witness ==
    /\ LargePath
    /\ pc = "done"
    /\ _keyword_index.present
    /\ Len(title_candidates) >= 2
    /\ \E c \in 1..Len(calls) : calls[c].outcome = "raised"
    /\ \E c \in 1..Len(calls) :
          calls[c].outcome = "returned" /\ calls[c].returned # <<>>

\* the rank of a confidence label: high > medium > low, 0 for anything else
Rank(label) ==
    CASE label = "high" -> 3
      [] label = "medium" -> 2
      [] label = "low" -> 1
      [] OTHER -> 0

\* C26: bulk_import with dry_run true sends no request to the recipe
\* backend and creates no client; it returns empty imported and failed
\* lists and as would_import the matches, in order, that have a matched
\* URL and a confidence at or above min_confidence, an unrecognised
\* min_confidence counting as medium
C26_DryRun ==
    dry_run =>
        /\ client = "none"
        /\ import_log = <<>>
        /\ pc # "import_raised"
        /\ pc = "import_done" =>
              LET least == IF Rank(min_confidence) = 0 THEN Rank("medium")
                           ELSE Rank(min_confidence)
              IN  /\ bulk_returned.imported = <<>>
                  /\ bulk_returned.failed = <<>>
                  /\ bulk_returned.would_import =
                        SelectSeq(match_list,
                                  LAMBDA m : /\ m.matched_url \notin {NULL, ""}
                                             /\ Rank(m.confidence) >= least)

\* a dry run with an unrecognised min_confidence has returned: a match of
\* medium confidence is in would_import, one of low confidence is not
C26_Witness ==
    /\ dry_run
    /\ pc = "import_done"
    /\ min_confidence \notin {"high", "medium", "low"}
    /\ \E n \in 1..Len(bulk_returned.would_import) :
          bulk_returned.would_import[n].confidence = "medium"
    /\ \E n \in 1..Len(match_list) :
          /\ match_list[n].confidence = "low"
          /\ match_list[n] \notin Range(bulk_returned.would_import)

\* the DELETE requests of the last call, in order
Deletions == SelectSeq(http_log, LAMBDA x : x.verb = "DELETE")

\* the server carried the request out and its answer could be read
Answered(x) == ~FailedExchange(x) /\ x.outcome.body # "not_json"

\* identifiers of the items of the list before the call, by checked flag
ItemIds(flag) ==
    LET picked == SelectSeq(backend_before.items, LAMBDA it : it.checked = flag)
    IN  [n \in 1..Len(picked) |-> picked[n].id]

\* C27: MealieClient.clear_checked_items sends a delete only for checked
\* items of the list, one for every checked item whether or not an earlier
\* delete failed, and none for an unchecked item; removed_count is the
\* number of checked items whose delete succeeded (0 and no delete when
\* nothing is checked); if the list cannot be fetched the error is
\* returned and no delete is sent
C27_ClearCheckedItems ==
    (ClientReturned /\ invoked.name = "clear_checked_items") =>
        /\ \A n \in 1..Len(Deletions) :
              Deletions[n].endpoint[4] \notin Range(ItemIds(FALSE))
        /\ \A id \in Range(ItemIds(FALSE)) :
              \E n \in 1..Len(backend.items) : backend.items[n].id = id
        /\ IF FailedExchange(http_log[1])
           THEN /\ ReturnsFailure(http_log[1])
                /\ Deletions = <<>>
                /\ backend = backend_before
           ELSE call_result.kind = "value" =>
                  /\ [n \in 1..Len(Deletions) |-> Deletions[n].endpoint[4]]
                        = ItemIds(TRUE)
                  /\ call_result.value.success
                  /\ call_result.value.removed_count =
                        Cardinality({n \in 1..Len(Deletions) :
                                        Answered(Deletions[n])})
        /\ call_result.kind = "raised" => Deletions = <<>>

\* of two checked items the delete of the first failed and the delete of
\* the second succeeded: one item is reported removed
C27_Witness ==
    /\ ClientReturned
    /\ invoked.name = "clear_checked_items"
    /\ Len(Deletions) = 2
    /\ FailedExchange(Deletions[1])
    /\ Answered(Deletions[2])
    /\ call_result.value.removed_count = 1

\* C28: for each chunk sent to the collaborator the final results hold
\* either results derived from the collaborator's reply or the failure
\* entries synthesized for the chunk, never both
C28_ChunkResultAtomicity ==
    pc = "done" =>
        \A c \in 1..Len(calls) :
            LET derived == {n \in 1..Len(result) : result[n].chunk = c}
                synthesized ==
                    {n \in 1..Len(result) :
                        /\ result[n].chunk = 0
                        /\ result[n].error # NULL
                        /\ (result[n].index - 1) \in Range(calls[c].indices)}
            IN  derived = {} \/ synthesized = {}

\* positions of the catalog whose entry scores above the threshold against
\* the query, found by scoring every entry
BruteForce(scanned_title, cat) ==
    {idx \in 0..(CatalogLen(cat) - 1) :
        PassesThreshold(extract_keywords(scanned_title), EntryAt(cat, idx).name)}

\* positions the prefilter call gathered from the index and kept
KeptOfIndex(scanned_title, cat, indices) ==
    {idx \in indices :
        PassesThreshold(extract_keywords(scanned_title), EntryAt(cat, idx).name)}

\* C29: the entries prefilter_candidates gathers through the inverted index
\* and keeps are the entries a scan of the whole catalog keeps; with
\* max_candidates at least their number the prefilter returns exactly
\* these, best first, and it returns nothing exactly when there are none
C29_IndexIsPureOptimisation ==
    pc = "prefilter_done" =>
        LET brute == BruteForce(scanned_titles[1], sitemap_recipes)
            kept == KeptOfIndex(scanned_titles[1], sitemap_recipes,
                                index_calls[Len(index_calls)].indices)
        IN  /\ kept = brute
            /\ max_candidates >= Cardinality(brute) =>
                  /\ Len(candidates) = Cardinality(brute)
                  /\ Range(candidates) =
                        {EntryAt(sitemap_recipes, idx) : idx \in brute}
                  /\ \A n \in 1..(Len(candidates) - 1) :
                        ~FracGT(score_candidate(
                                    extract_keywords(scanned_titles[1]),
                                    candidates[n + 1].name),
                                score_candidate(
                                    extract_keywords(scanned_titles[1]),
                                    candidates[n].name))
            /\ (candidates = <<>>) <=> (brute = {})

\* a call whose catalog has above-threshold entries, an entry that shares a
\* keyword with the query, and an entry that shares none
C29_Witness ==
    /\ pc = "prefilter_done"
    /\ Cardinality(BruteForce(scanned_titles[1], sitemap_recipes)) >= 2
    /\ max_candidates >= Cardinality(BruteForce(scanned_titles[1], sitemap_recipes))
    /\ \E idx \in 0..(CatalogLen(sitemap_recipes) - 1) :
          idx \notin index_calls[Len(index_calls)].indices
    /\ Len(candidates) = 2

\* the matches recorded in a list of imported or failed entries
MatchesOf(entries) == [n \in 1..Len(entries) |-> entries[n].match]

\* number of positions of the list l that hold m
Occurrences(l, m) == Cardinality({n \in 1..Len(l) : l[n] = m})

\* every match is in exactly one of the four lists of the results, the
\* import requests were sent for the importable matches in match order,
\* whatever the earlier ones came to, and the client is closed
Accounted ==
    /\ \A n \in 1..Len(match_list) :
          Occurrences(MatchesOf(results.imported), match_list[n])
        + Occurrences(MatchesOf(results.failed), match_list[n])
        + Occurrences(results.skipped_no_match, match_list[n])
        + Occurrences(results.skipped_low_confidence, match_list[n]) = 1
    /\ Len(results.imported) + Len(results.failed)
        + Len(results.skipped_no_match) + Len(results.skipped_low_confidence)
          = Len(match_list)
    /\ [n \in 1..Len(ImportRequests) |-> ImportRequests[n].url]
          = [n \in 1..Len(to_import) |-> to_import[n].matched_url]
    /\ client = "closed"

\* C30: when a bulk_import that is not a dry run is over, by return or by
\* exception, every input match is in exactly one of imported, failed,
\* skipped_no_match and skipped_low_confidence, the imports were attempted
\* one at a time in match order whether or not earlier ones failed, and
\* the backend client is closed
C30_ImportAccounting ==
    (pc \in {"import_done", "import_raised"} /\ ~dry_run) => Accounted

====
